---- MODULE Spec2Model ----
(***************************************************************************)
(* A model of the dnmap policy evaluation engine (package graph): the      *)
(* selector matcher, the namespace scope resolver, the port matcher, the   *)
(* two rule evaluators and the graph assembler of Builder.Build.           *)
(*                                                                         *)
(* Go values are modelled as follows.  A map[string]string is a function   *)
(* whose DOMAIN is the set of keys present; a lookup of an absent key      *)
(* yields the zero value "" (Lookup).  A pointer is a sequence of length   *)
(* 0 (nil) or 1 (the pointee).  A slice is a sequence.  Strings are        *)
(* strings, and string concatenation is \o.                                *)
(***************************************************************************)
EXTENDS Integers, Sequences, FiniteSets, TLC

VARIABLES
    labels,          \* matchesSelector: the label set argument
    selector,        \* matchesSelector: the selector argument
    selResult,       \* matchesSelector: Nil before the call, then Some(the BOOLEAN returned)
    wPort,           \* portMatches: the workload port argument
    pPort,           \* portMatches: the policy port constraint argument
    portResult,      \* portMatches: Nil before the call, then Some(the BOOLEAN returned)
    portPath,        \* portMatches: the comparisons the call evaluated
    namespaces,      \* the NamespaceInfo records of the scan
    workloads,       \* the Workload records of the scan
    policies,        \* the Policy records of the scan
    builder,         \* the Builder: its namespaceLabels field
    graph,           \* Nil, then Some(the NetworkGraph the last Build returned)
    marshalFails,    \* the policy documents for which yaml.Marshal returns an error
    peer,            \* getNamespacesForPeer: the peer argument
    policyNamespace, \* getNamespacesForPeer: the policy namespace argument
    peerNamespaces,  \* getNamespacesForPeer: Nil, then Some(the namespaces returned)
    ruleFrom,        \* findSourceWorkloads, findIstioSourceWorkloads: the from argument
    foundSources,    \* Nil, then Some(the source workloads returned)
    genPC,           \* main.go: the position of the goroutine that calls generateMap
    calls,           \* main.go: the number of generateMap calls begun
    serving,         \* main.go: run has reached http.ListenAndServe
    lastErr,         \* main.go: the error the last generateMap call returned, "" for nil
    heap,            \* the NetworkGraph objects still referenced, by address
    networkGraph,    \* generateMap: the pointer networkGraph, 0 for nil
    html,            \* generateMap: the address of the graph rendered into html, 0 before
    currentGraph,    \* main.go: the pointer currentGraph, 0 for nil
    graphMutex,      \* main.go: graphMutex, its writer flag and its readers
    htmlFile,        \* the address of the graph whose rendering is in outputFile, 0 for no file
    handlerPC,       \* the position of each /warnings.csv handler
    handlerG,        \* the pointer g of each /warnings.csv handler, 0 for nil
    itoaArg,         \* itoa: the argument of the outermost call
    itoaN,           \* itoa: the argument n of the innermost call
    itoaSigns,       \* itoa: the "-" of the calls that wait for the innermost one
    itoaPC,          \* itoa: "call", "returned", "stack overflow", or "idle"
    itoaResult       \* itoa: the string returned, "" before

vars == <<labels, selector, selResult, wPort, pPort, portResult, portPath,
          namespaces, workloads, policies, builder, graph, marshalFails,
          peer, policyNamespace, peerNamespaces, ruleFrom, foundSources,
          genPC, calls, serving, lastErr, heap, networkGraph, html, currentGraph,
          graphMutex, htmlFile, handlerPC, handlerG,
          itoaArg, itoaN, itoaSigns, itoaPC, itoaResult>>

selVars == <<labels, selector, selResult>>
portVars == <<wPort, pPort, portResult, portPath>>
scanVars == <<namespaces, workloads, policies, marshalFails>>
peerVars == <<peer, policyNamespace, peerNamespaces>>
sourceVars == <<ruleFrom, foundSources>>
serveVars == <<genPC, calls, serving, lastErr, heap, networkGraph, html, currentGraph,
               graphMutex, htmlFile, handlerPC, handlerG>>
itoaVars == <<itoaArg, itoaN, itoaSigns, itoaPC, itoaResult>>

----------------------------------------------------------------------------
(* Go values *)

Nil == <<>>
Some(x) == <<x>>
IsNil(p) == Len(p) = 0
Deref(p) == p[1]

\* m[k] on a Go map: the zero value when the key is absent.
Lookup(m, k) == IF k \in DOMAIN m THEN m[k] ELSE ""

\* v, ok := m[k]
HasKey(m, k) == k \in DOMAIN m

EmptyMap == <<>>

\* for _, v := range s { if x == v { found } }
InValues(x, s) == \E i \in 1..Len(s) : s[i] = x

\* All sequences over S of length at most n.
SeqsUpTo(S, n) == UNION {[1..k -> S] : k \in 0..n}

\* All maps from a subset of K to V.
MapsOver(K, V) == UNION {[D -> V] : D \in SUBSET K}

----------------------------------------------------------------------------
(* Selector Matcher: Builder.matchesSelector *)

OpIn == "In"
OpNotIn == "NotIn"
OpExists == "Exists"
OpDoesNotExist == "DoesNotExist"

\* The loop over selector.MatchLabels: labels[key] != value fails the match.
matchLabelsHold(lbls, matchLabels) ==
    \A key \in DOMAIN matchLabels : Lookup(lbls, key) = matchLabels[key]

\* exprHolds with NotIn requiring the key to be present, as In does.
exprHolds_NotInNeedsKey(lbls, expr) ==
    LET labelValue == Lookup(lbls, expr.Key)
        hasLabel == HasKey(lbls, expr.Key)
    IN  CASE expr.Operator = OpIn ->
               hasLabel /\ InValues(labelValue, expr.Values)
          [] expr.Operator = OpNotIn ->
               hasLabel /\ ~InValues(labelValue, expr.Values)
          [] expr.Operator = OpExists -> hasLabel
          [] expr.Operator = OpDoesNotExist -> ~hasLabel
          [] OTHER -> TRUE

\* One iteration of the loop over selector.MatchExpressions: FALSE where the
\* code returns false, TRUE where it falls through to the next expression.
\* The switch has no default: any other operator falls through.
exprHolds(lbls, expr) ==
    LET labelValue == Lookup(lbls, expr.Key)
        hasLabel == HasKey(lbls, expr.Key)
    IN  CASE expr.Operator = OpIn ->
               hasLabel /\ InValues(labelValue, expr.Values)
          [] expr.Operator = OpNotIn ->
               ~(hasLabel /\ InValues(labelValue, expr.Values))
          [] expr.Operator = OpExists -> hasLabel
          [] expr.Operator = OpDoesNotExist -> ~hasLabel
          [] OTHER -> TRUE

matchesSelector(lbls, sel) ==
    /\ matchLabelsHold(lbls, sel.MatchLabels)
    /\ \A i \in 1..Len(sel.MatchExpressions) : exprHolds(lbls, sel.MatchExpressions[i])

----------------------------------------------------------------------------
(* Port Matcher: Builder.portMatches *)

\* intstr.Type: Int is 0, String is 1.
IntstrInt == 0
IntstrString == 1

\* The protocol check: a constraint protocol is compared with the workload
\* port's Protocol field as it stands.
protocolMismatch(wp, pp) ==
    ~IsNil(pp.Protocol) /\ Deref(pp.Protocol) # wp.Protocol

\* The comparisons the call evaluates after the protocol check passed.
portMatchesPath(wp, pp) ==
    IF protocolMismatch(wp, pp) THEN {}
    ELSE IF IsNil(pp.Port) THEN {}
    ELSE IF Deref(pp.Port).Type = IntstrInt THEN {"numeric"}
    ELSE {"named"}

\* portMatches with the else of the Int/String branch missing: the name is
\* compared after the number.
portMatches_NoElse(wp, pp) ==
    IF protocolMismatch(wp, pp) THEN FALSE
    ELSE IF IsNil(pp.Port) THEN TRUE
    ELSE /\ (Deref(pp.Port).Type = IntstrInt => Deref(pp.Port).IntVal = wp.ContainerPort)
         /\ Deref(pp.Port).StrVal = wp.Name

portMatches(wp, pp) ==
    IF protocolMismatch(wp, pp) THEN FALSE
    ELSE IF IsNil(pp.Port) THEN TRUE
    ELSE IF Deref(pp.Port).Type = IntstrInt
         THEN Deref(pp.Port).IntVal = wp.ContainerPort
         ELSE Deref(pp.Port).StrVal = wp.Name

----------------------------------------------------------------------------
(* Sequences, as Go loops use them *)

\* for _, e := range s { acc = f(acc, e) }
RECURSIVE FoldSeq(_, _, _)
FoldSeq(f(_, _), acc, s) ==
    IF s = <<>> THEN acc ELSE FoldSeq(f, f(acc, Head(s)), Tail(s))

\* The indices of a slice, as the first variable of a range loop.
Indices(s) == [i \in 1..Len(s) |-> i]

\* All orders in which the elements of S can be visited.
Orders(S) ==
    {s \in [1..Cardinality(S) -> S] : \A i, j \in 1..Cardinality(S) : s[i] = s[j] => i = j}

----------------------------------------------------------------------------
(* Node identities and nodes: model.go *)

MinInt32 == -2147483647 - 1

\* -n on an int32: the most negative value is its own negation.
Neg32(n) == IF n = MinInt32 THEN MinInt32 ELSE -n

\* int32(n) on an int: the identity on the values of the int32 range, and the
\* integers of this model are all in that range.
ToInt32(n) == n

DigitChar(d) == SubSeq("0123456789", d + 1, d + 1)

\* The digit loop of itoa: the digits of n > 0, most significant first.
RECURSIVE itoaDigits(_, _)
itoaDigits(n, digits) ==
    IF n > 0 THEN itoaDigits(n \div 10, DigitChar(n % 10) \o digits) ELSE digits

RECURSIVE itoa(_)
itoa(n) ==
    IF n = 0 THEN "0"
    ELSE IF n < 0 THEN "-" \o itoa(Neg32(n))
    ELSE itoaDigits(n, "")

\* fmt.Sprintf("%d", n) on an int.
Sprintd(n) ==
    IF n = 0 THEN "0"
    ELSE IF n < 0 THEN "-" \o itoaDigits(-n, "")
    ELSE itoaDigits(n, "")

WorkloadID(namespace, name) == namespace \o "/" \o name

PortID(workloadID, port, protocol) == workloadID \o ":" \o protocol \o "/" \o itoa(port)

NodeTypeWorkload == "workload"
NodeTypePort == "port"

NewWorkloadNode(w) ==
    [ID |-> WorkloadID(w.Namespace, w.Name),
     Label |-> w.Name,
     Type |-> NodeTypeWorkload,
     Namespace |-> w.Namespace,
     Kind |-> w.Type,
     Parent |-> "",
     Port |-> 0,
     Protocol |-> "",
     Metadata |-> w.Labels,
     Warnings |-> <<>>]

NewPortNode(workloadID, p) ==
    LET protocol == IF p.Protocol = "" THEN "TCP" ELSE p.Protocol
        label == IF p.Name = "" THEN itoa(p.ContainerPort) ELSE p.Name
    IN  [ID |-> PortID(workloadID, p.ContainerPort, protocol),
         Label |-> label,
         Type |-> NodeTypePort,
         Namespace |-> "",
         Kind |-> "",
         Parent |-> workloadID,
         Port |-> p.ContainerPort,
         Protocol |-> protocol,
         Metadata |-> EmptyMap,
         Warnings |-> <<>>]

----------------------------------------------------------------------------
(* Builder: namespace labels and the lookup maps of Build *)

\* NewBuilder: no namespace labels.
NewBuilder == [namespaceLabels |-> EmptyMap]

\* WithNamespaceLabels: each record overwrites the entry of its namespace.
WithNamespaceLabelsOf(b, infos) ==
    [namespaceLabels |->
        FoldSeq(LAMBDA m, ns :
                    [n \in DOMAIN m \cup {ns.Name} |-> IF n = ns.Name THEN ns.Labels ELSE m[n]],
                b.namespaceLabels, infos)]

\* workloadsByNS as Build fills it: namespace -> its workloads in input order.
workloadsByNSOf(ws) ==
    [ns \in {ws[i].Namespace : i \in 1..Len(ws)} |->
        SelectSeq(ws, LAMBDA w : w.Namespace = ns)]

\* workloadsByNS[ns]: nil for a namespace without workloads.
WorkloadsIn(byNS, ns) == IF ns \in DOMAIN byNS THEN byNS[ns] ELSE <<>>

\* AllWorkloads stopping after the namespace visited first.
AllWorkloads_FirstNamespace(byNS, nsOrder) ==
    IF Len(nsOrder) = 0 THEN <<>> ELSE WorkloadsIn(byNS, nsOrder[1])

\* for _, workloads := range workloadsByNS { for _, w := range workloads {...} }
\* with the namespaces visited in the order nsOrder.
AllWorkloads(byNS, nsOrder) ==
    FoldSeq(LAMBDA acc, ns : acc \o WorkloadsIn(byNS, ns), <<>>, nsOrder)

\* if !seen[wID] { result = append(result, w); seen[wID] = true } for each w of ws.
addUnseen(result, ws) ==
    FoldSeq(LAMBDA acc, w :
                IF \E i \in 1..Len(acc) :
                       WorkloadID(acc[i].Namespace, acc[i].Name) = WorkloadID(w.Namespace, w.Name)
                THEN acc ELSE Append(acc, w),
            result, ws)

----------------------------------------------------------------------------
(* Namespace Scope Resolver: getNamespacesForPeer, namespaceMatchesSelector *)

nsExprHolds(nsLabels, expr) ==
    LET labelValue == Lookup(nsLabels, expr.Key)
        hasLabel == HasKey(nsLabels, expr.Key)
    IN  CASE expr.Operator = OpIn ->
               hasLabel /\ InValues(labelValue, expr.Values)
          [] expr.Operator = OpNotIn ->
               ~(hasLabel /\ InValues(labelValue, expr.Values))
          [] expr.Operator = OpExists -> hasLabel
          [] expr.Operator = OpDoesNotExist -> ~hasLabel
          [] OTHER -> TRUE

namespaceMatchesSelector(nsLabels, sel) ==
    /\ \A key \in DOMAIN sel.MatchLabels : Lookup(nsLabels, key) = sel.MatchLabels[key]
    /\ \A i \in 1..Len(sel.MatchExpressions) : nsExprHolds(nsLabels, sel.MatchExpressions[i])

\* b.namespaceLabels[ns]: a nil map for a namespace without a record.
LabelsOfNamespace(b, ns) ==
    IF ns \in DOMAIN b.namespaceLabels THEN b.namespaceLabels[ns] ELSE EmptyMap

\* getNamespacesForPeer treating a present but empty selector like an absent one.
getNamespacesForPeer_EmptyAsAbsent(b, policyNS, npPeer, byNS, nsOrder) ==
    IF IsNil(npPeer.NamespaceSelector) THEN <<policyNS>>
    ELSE LET sel == Deref(npPeer.NamespaceSelector)
         IN  IF DOMAIN sel.MatchLabels = {} /\ Len(sel.MatchExpressions) = 0
             THEN <<policyNS>>
             ELSE SelectSeq(nsOrder,
                            LAMBDA ns : namespaceMatchesSelector(LabelsOfNamespace(b, ns), sel))

\* The namespaces are those of workloadsByNS, in the order nsOrder in which
\* the range over that map visits them.
getNamespacesForPeer(b, policyNS, npPeer, byNS, nsOrder) ==
    IF IsNil(npPeer.NamespaceSelector) THEN <<policyNS>>
    ELSE LET sel == Deref(npPeer.NamespaceSelector)
         IN  IF DOMAIN sel.MatchLabels = {} /\ Len(sel.MatchExpressions) = 0
             THEN nsOrder
             ELSE SelectSeq(nsOrder,
                            LAMBDA ns : namespaceMatchesSelector(LabelsOfNamespace(b, ns), sel))

----------------------------------------------------------------------------
(* Rule evaluator for NetworkPolicy: targets, sources, allowed ports *)

findMatchingWorkloads(namespace, sel, byNS) ==
    SelectSeq(WorkloadsIn(byNS, namespace), LAMBDA w : matchesSelector(w.Labels, sel))

\* findSourceWorkloads with a peer without pod selector matching no workload.
findSourceWorkloads_NilMatchesNone(b, policyNS, from, byNS, nsOrder) ==
    IF Len(from) = 0
    THEN addUnseen(<<>>, AllWorkloads(byNS, nsOrder))
    ELSE FoldSeq(LAMBDA result, npPeer :
                    FoldSeq(LAMBDA res, ns :
                                addUnseen(res,
                                    SelectSeq(WorkloadsIn(byNS, ns),
                                              LAMBDA w : ~IsNil(npPeer.PodSelector)
                                                         /\ matchesSelector(w.Labels, Deref(npPeer.PodSelector)))),
                            result,
                            getNamespacesForPeer(b, policyNS, npPeer, byNS, nsOrder)),
                 <<>>, from)

findSourceWorkloads(b, policyNS, from, byNS, nsOrder) ==
    IF Len(from) = 0
    THEN addUnseen(<<>>, AllWorkloads(byNS, nsOrder))
    ELSE FoldSeq(LAMBDA result, npPeer :
                    FoldSeq(LAMBDA res, ns :
                                addUnseen(res,
                                    SelectSeq(WorkloadsIn(byNS, ns),
                                              LAMBDA w : IsNil(npPeer.PodSelector)
                                                         \/ matchesSelector(w.Labels, Deref(npPeer.PodSelector)))),
                            result,
                            getNamespacesForPeer(b, policyNS, npPeer, byNS, nsOrder)),
                 <<>>, from)

\* getAllowedPorts without the break after the first matching constraint.
getAllowedPorts_NoBreak(w, policyPorts) ==
    IF Len(policyPorts) = 0 THEN w.Ports
    ELSE FoldSeq(LAMBDA allowed, wp :
                    FoldSeq(LAMBDA al, pp : IF portMatches(wp, pp) THEN Append(al, wp) ELSE al,
                            allowed, policyPorts),
                 <<>>, w.Ports)

getAllowedPorts(w, policyPorts) ==
    IF Len(policyPorts) = 0 THEN w.Ports
    ELSE SelectSeq(w.Ports,
                   LAMBDA wp : \E i \in 1..Len(policyPorts) : portMatches(wp, policyPorts[i]))

\* The self-edge check with the comparison dropped.
isSelfEdge_Never(sourceWID, targetWID) == FALSE

\* if sourceWID == targetWID { continue }, in both rule evaluators.
isSelfEdge(sourceWID, targetWID) == sourceWID = targetWID

WarningNoPorts == "WarningNoPorts"
WarningNoSelector == "WarningNoSelector"

\* The document yaml.Marshal gives for the policy with its managed fields
\* elided, here the policy's kind and name.
policyDocument(kind, policy) == kind \o " " \o policy.Namespace \o "/" \o policy.Name

\* policyYAMLOf with the error of yaml.Marshal ignored.
policyYAMLOf_ErrIgnored(kind, policy, env) == policyDocument(kind, policy)

\* policyYAML := ""; if yamlBytes, err := yaml.Marshal(policyCopy); err == nil
\* { policyYAML = string(yamlBytes) }
policyYAMLOf(kind, policy, env) ==
    IF policyDocument(kind, policy) \in env.marshalFails
    THEN ""
    ELSE policyDocument(kind, policy)

\* addWarning without the test of warnings[targetWID][kind].
addWarning_NoTest(acc, targetW, policyFullName, kind) ==
    LET targetWID == WorkloadID(targetW.Namespace, targetW.Name)
    IN  [acc EXCEPT
            !.warnings[targetWID] = @ \cup {kind},
            !.details = Append(@, [WorkloadID |-> targetWID,
                                   WorkloadName |-> targetW.Name,
                                   Namespace |-> targetW.Namespace,
                                   PolicyName |-> policyFullName,
                                   WarningType |-> kind])]

\* if !warnings[targetWID][kind] { warnings[targetWID][kind] = true; append the detail }
addWarning(acc, targetW, policyFullName, kind) ==
    LET targetWID == WorkloadID(targetW.Namespace, targetW.Name)
    IN  IF kind \in acc.warnings[targetWID] THEN acc
        ELSE [acc EXCEPT
                !.warnings[targetWID] = @ \cup {kind},
                !.details = Append(@, [WorkloadID |-> targetWID,
                                       WorkloadName |-> targetW.Name,
                                       Namespace |-> targetW.Namespace,
                                       PolicyName |-> policyFullName,
                                       WarningType |-> kind])]

\* emitEdge without the increment of *edgeID.
emitEdge_NoIncrement(acc, edge) ==
    [acc EXCEPT !.edges = Append(@, [edge EXCEPT !.ID = "edge-" \o Sprintd(acc.edgeID)])]

\* edges = append(edges, edge); *edgeID++
emitEdge(acc, edge) ==
    [acc EXCEPT !.edges = Append(@, [edge EXCEPT !.ID = "edge-" \o Sprintd(acc.edgeID)]),
                !.edgeID = @ + 1]

\* Returns the edges, the warnings per target workload, the warning details
\* and the edge counter after the policy.
processK8sNetworkPolicyWithWarnings(b, policy, byNS, edgeID, env) ==
    LET policyFullName == policy.Namespace \o "/" \o policy.Name
        targetWorkloads == findMatchingWorkloads(policy.Namespace, policy.Spec.PodSelector, byNS)
        start == [edges |-> <<>>,
                  edgeID |-> edgeID,
                  warnings |-> [wID \in {WorkloadID(targetWorkloads[i].Namespace, targetWorkloads[i].Name) :
                                           i \in 1..Len(targetWorkloads)} |-> {}],
                  details |-> <<>>]
        perRule(acc0, ruleIdx) ==
            LET ingressRule == policy.Spec.Ingress[ruleIdx]
                hasNoPorts == Len(ingressRule.Ports) = 0
                hasNoSelector == Len(ingressRule.From) = 0
                sourceWorkloads ==
                    findSourceWorkloads(b, policy.Namespace, ingressRule.From, byNS, env.nsOrder)
                perTarget(acc1, targetW) ==
                    LET targetWID == WorkloadID(targetW.Namespace, targetW.Name)
                        acc2 == IF hasNoPorts
                                THEN addWarning(acc1, targetW, policyFullName, WarningNoPorts)
                                ELSE acc1
                        acc3 == IF hasNoSelector
                                THEN addWarning(acc2, targetW, policyFullName, WarningNoSelector)
                                ELSE acc2
                        allowedPorts == getAllowedPorts(targetW, ingressRule.Ports)
                        perSource(acc4, sourceW) ==
                            LET sourceWID == WorkloadID(sourceW.Namespace, sourceW.Name)
                                perPort(acc5, port) ==
                                    LET protocol == IF port.Protocol = "" THEN "TCP" ELSE port.Protocol
                                    IN  emitEdge(acc5,
                                            [ID |-> "",
                                             Source |-> sourceWID,
                                             Target |-> PortID(targetWID, port.ContainerPort, protocol),
                                             Label |-> protocol \o ":" \o Sprintd(port.ContainerPort),
                                             Rule |-> "NetworkPolicy Rule " \o Sprintd(ruleIdx),
                                             Policy |-> policyFullName,
                                             PolicyYAML |-> policyYAMLOf("NetworkPolicy", policy, env),
                                             Metadata |-> [policyType |-> "NetworkPolicy"]])
                            IN  IF isSelfEdge(sourceWID, targetWID) THEN acc4
                                ELSE FoldSeq(perPort, acc4, allowedPorts)
                    IN  FoldSeq(perSource, acc3, sourceWorkloads)
            IN  FoldSeq(perTarget, acc0, targetWorkloads)
    IN  FoldSeq(perRule, start, Indices(policy.Spec.Ingress))

----------------------------------------------------------------------------
(* Rule evaluator for AuthorizationPolicy *)

labelsMatch(workloadLabels, requiredLabels) ==
    \A key \in DOMAIN requiredLabels : Lookup(workloadLabels, key) = requiredLabels[key]

findWorkloadsByLabels(namespace, lbls, byNS) ==
    SelectSeq(WorkloadsIn(byNS, namespace), LAMBDA w : labelsMatch(w.Labels, lbls))

\* strings.Split(s, "/")
RECURSIVE splitSlash(_, _, _)
splitSlash(s, cur, parts) ==
    IF s = "" THEN Append(parts, cur)
    ELSE IF Head(s) = "/" THEN splitSlash(Tail(s), "", Append(parts, cur))
    ELSE splitSlash(Tail(s), cur \o Head(s), parts)

\* extractNamespaceFromPrincipal reading the third segment, wherever "ns" is.
extractNamespaceFromPrincipal_Third(principal) ==
    LET parts == splitSlash(principal, "", <<>>)
    IN  IF Len(parts) >= 3 THEN parts[3] ELSE ""

\* The segment after the first "ns" segment that has a successor; "" if none.
extractNamespaceFromPrincipal(principal) ==
    LET parts == splitSlash(principal, "", <<>>)
        hits == {i \in 1..Len(parts) : parts[i] = "ns" /\ i + 1 <= Len(parts)}
    IN  IF hits = {} THEN ""
        ELSE parts[(CHOOSE i \in hits : \A j \in hits : i <= j) + 1]

IsDigit(c) == c \in {"0", "1", "2", "3", "4", "5", "6", "7", "8", "9"}
DigitVal(c) == CHOOSE d \in 0..9 : DigitChar(d) = c

\* The decimal digits s starts with, as a number (n so far).
RECURSIVE scanDigits(_, _)
scanDigits(s, n) ==
    IF s # "" /\ IsDigit(Head(s)) THEN scanDigits(Tail(s), n * 10 + DigitVal(Head(s))) ELSE n

\* port := 0; fmt.Sscanf(portStr, "%d", &port): an optional sign and the
\* digits that follow; port stays 0 when there is no digit.
sscanfInt(portStr) ==
    IF portStr # "" /\ Head(portStr) = "-" THEN -scanDigits(Tail(portStr), 0)
    ELSE IF portStr # "" /\ Head(portStr) = "+" THEN scanDigits(Tail(portStr), 0)
    ELSE scanDigits(portStr, 0)

getIstioAllowedPorts(to) ==
    FoldSeq(LAMBDA ports, t :
                IF IsNil(t.Operation) THEN ports
                ELSE FoldSeq(LAMBDA ps, portStr :
                                LET port == sscanfInt(portStr)
                                IN  IF port > 0 /\ ~InValues(port, ps) THEN Append(ps, port) ELSE ps,
                             ports, Deref(t.Operation).Ports),
            <<>>, to)

findIstioSourceWorkloads(policyNS, from, byNS, nsOrder) ==
    IF Len(from) = 0
    THEN addUnseen(<<>>, AllWorkloads(byNS, nsOrder))
    ELSE FoldSeq(LAMBDA result, f :
                    IF IsNil(f.Source) THEN result
                    ELSE LET source == Deref(f.Source)
                             r1 == FoldSeq(LAMBDA r, principal :
                                              LET ns == extractNamespaceFromPrincipal(principal)
                                              IN  IF ns # "" THEN addUnseen(r, WorkloadsIn(byNS, ns)) ELSE r,
                                           result, source.Principals)
                             r2 == FoldSeq(LAMBDA r, ns : addUnseen(r, WorkloadsIn(byNS, ns)),
                                           r1, source.Namespaces)
                         IN  IF Len(source.Principals) = 0 /\ Len(source.Namespaces) = 0
                             THEN addUnseen(r2, AllWorkloads(byNS, nsOrder))
                             ELSE r2,
                 <<>>, from)

\* Returns the edges and the edge counter after the policy.
processIstioAuthPolicy(policy, byNS, edgeID, env) ==
    LET sel == policy.Spec.Selector
        targetWorkloads ==
            IF ~IsNil(sel) /\ DOMAIN Deref(sel).MatchLabels # {}
            THEN findWorkloadsByLabels(policy.Namespace, Deref(sel).MatchLabels, byNS)
            ELSE WorkloadsIn(byNS, policy.Namespace)
        perRule(acc0, ruleIdx) ==
            LET rule == policy.Spec.Rules[ruleIdx]
                sourceWorkloads ==
                    findIstioSourceWorkloads(policy.Namespace, rule.From, byNS, env.nsOrder)
                allowedPorts == getIstioAllowedPorts(rule.To)
                perTarget(acc1, targetW) ==
                    LET targetWID == WorkloadID(targetW.Namespace, targetW.Name)
                        targetPorts ==
                            IF Len(allowedPorts) = 0
                            THEN [i \in 1..Len(targetW.Ports) |-> targetW.Ports[i].ContainerPort]
                            ELSE allowedPorts
                        perSource(acc2, sourceW) ==
                            LET sourceWID == WorkloadID(sourceW.Namespace, sourceW.Name)
                                perPort(acc3, port) ==
                                    emitEdge(acc3,
                                        [ID |-> "",
                                         Source |-> sourceWID,
                                         Target |-> PortID(targetWID, ToInt32(port), "TCP"),
                                         Label |-> "TCP:" \o Sprintd(port),
                                         Rule |-> "AuthzPolicy Rule " \o Sprintd(ruleIdx),
                                         Policy |-> policy.Namespace \o "/" \o policy.Name,
                                         PolicyYAML |-> policyYAMLOf("AuthorizationPolicy", policy, env),
                                         Metadata |-> [policyType |-> "AuthorizationPolicy"]])
                            IN  IF isSelfEdge(sourceWID, targetWID) THEN acc2
                                ELSE FoldSeq(perPort, acc2, targetPorts)
                    IN  FoldSeq(perSource, acc1, sourceWorkloads)
            IN  FoldSeq(perTarget, acc0, targetWorkloads)
    IN  FoldSeq(perRule, [edges |-> <<>>, edgeID |-> edgeID], Indices(policy.Spec.Rules))

----------------------------------------------------------------------------
(* Graph assembler: Builder.Build *)

PolicyTypeK8sNetworkPolicy == "NetworkPolicy"
PolicyTypeIstioAuthorizationPolicy == "AuthorizationPolicy"

\* buildNodes skipping a workload whose id already has a node.
buildNodes_SkipSeen(ws) ==
    FoldSeq(LAMBDA nodes, w :
                IF \E i \in 1..Len(nodes) : nodes[i].ID = WorkloadID(w.Namespace, w.Name)
                THEN nodes
                ELSE FoldSeq(LAMBDA ns, p : Append(ns, NewPortNode(WorkloadID(w.Namespace, w.Name), p)),
                             Append(nodes, NewWorkloadNode(w)), w.Ports),
            <<>>, ws)

\* The first loop of Build: a workload node, then a node for each of its
\* ports, per input workload, in input order.
buildNodes(ws) ==
    FoldSeq(LAMBDA nodes, w :
                FoldSeq(LAMBDA ns, p : Append(ns, NewPortNode(WorkloadID(w.Namespace, w.Name), p)),
                        Append(nodes, NewWorkloadNode(w)), w.Ports),
            <<>>, ws)

\* nodeIndex[wID] after the first loop: the position of the workload node of
\* the last input workload with that id.
nodeIndexOf(ws, wID) ==
    LET last == CHOOSE i \in 1..Len(ws) :
                    /\ WorkloadID(ws[i].Namespace, ws[i].Name) = wID
                    /\ \A j \in (i + 1)..Len(ws) : WorkloadID(ws[j].Namespace, ws[j].Name) # wID
    IN  Len(buildNodes(SubSeq(ws, 1, last - 1))) + 1

\* graph.Edges and graph.WarningDetails extended by what the evaluator
\* returned in r, and its warnings merged into workloadWarnings.
mergeK8s(acc, r) ==
    [edges |-> acc.edges \o r.edges,
     edgeID |-> r.edgeID,
     details |-> acc.details \o r.details,
     workloadWarnings |->
         [wID \in DOMAIN acc.workloadWarnings |->
             acc.workloadWarnings[wID]
             \cup (IF wID \in DOMAIN r.warnings THEN r.warnings[wID] ELSE {})]]

\* graph.Edges extended by the edges the evaluator returned in r.
mergeIstio(acc, r) == [acc EXCEPT !.edges = @ \o r.edges, !.edgeID = r.edgeID]

\* The body of the policy loop of Build: the switch on policy.Type.
processPolicy(b, byNS, env, acc, policy) ==
    IF policy.Type = PolicyTypeK8sNetworkPolicy /\ ~IsNil(policy.K8sNetworkPolicy)
    THEN mergeK8s(acc, processK8sNetworkPolicyWithWarnings(
                           b, Deref(policy.K8sNetworkPolicy), byNS, acc.edgeID, env))
    ELSE IF policy.Type = PolicyTypeIstioAuthorizationPolicy /\ ~IsNil(policy.IstioAuthPolicy)
    THEN mergeIstio(acc, processIstioAuthPolicy(
                             Deref(policy.IstioAuthPolicy), byNS, acc.edgeID, env))
    ELSE acc

\* The policy loop of Build.
processPolicies(b, ws, pols, env) ==
    FoldSeq(LAMBDA acc, policy : processPolicy(b, workloadsByNSOf(ws), env, acc, policy),
            [edges |-> <<>>,
             edgeID |-> 0,
             details |-> <<>>,
             workloadWarnings |->
                 [wID \in {WorkloadID(ws[i].Namespace, ws[i].Name) : i \in 1..Len(ws)} |-> {}]],
            pols)

\* The last loop of Build: the warnings of each workload, in the order
\* warnOrder of the range over its warning set, put on the node nodeIndex
\* holds for its id.
applyWarnings(ws, nodes, workloadWarnings, warnOrder) ==
    [i \in 1..Len(nodes) |->
        IF \E wID \in DOMAIN workloadWarnings :
               workloadWarnings[wID] # {} /\ nodeIndexOf(ws, wID) = i
        THEN [nodes[i] EXCEPT !.Warnings =
                SelectSeq(warnOrder, LAMBDA k : k \in workloadWarnings[nodes[i].ID])]
        ELSE nodes[i]]

\* The graph Build returns, from the nodes of the first loop and the state
\* done after the policy loop.
graphOf(ws, nodes, done, env) ==
    [Nodes |-> applyWarnings(ws, nodes, done.workloadWarnings, env.warnOrder),
     Edges |-> done.edges,
     WarningDetails |-> done.details]

\* Build.  env holds what the Go runtime decides: nsOrder, the order in which
\* a range over workloadsByNS visits the namespaces, and warnOrder, the order
\* in which a range over a warning set visits the kinds, and marshalFails,
\* the policy documents for which yaml.Marshal returns an error.
Build(b, ws, pols, env) ==
    graphOf(ws, buildNodes(ws), processPolicies(b, ws, pols, env), env)

----------------------------------------------------------------------------
(* Input universes of the matchers *)

MaxExprs == 1

LabelKeys == {"app", "tier"}
LabelValues == {"", "web", "db"}
LabelSets == MapsOver(LabelKeys, LabelValues)
ValueLists == {<<>>, <<"web">>, <<"", "web">>}
Operators == {OpIn, OpNotIn, OpExists, OpDoesNotExist}
Expressions == [Key : LabelKeys, Operator : Operators, Values : ValueLists]
Selectors == [MatchLabels : LabelSets, MatchExpressions : SeqsUpTo(Expressions, MaxExprs)]

EmptySelector == [MatchLabels |-> EmptyMap, MatchExpressions |-> <<>>]

PortNames == {"", "http", "dns"}
PortNumbers == {53, 80}
Protocols == {"TCP", "UDP"}
WorkloadPorts == [Name : PortNames, ContainerPort : PortNumbers, Protocol : Protocols \cup {""}]
IntOrStrings ==
    [Type : {IntstrInt}, IntVal : PortNumbers, StrVal : {""}]
    \cup [Type : {IntstrString}, IntVal : {0}, StrVal : PortNames]
PolicyPorts ==
    [Protocol : {Nil} \cup {Some(p) : p \in Protocols},
     Port : {Nil} \cup {Some(v) : v \in IntOrStrings}]

----------------------------------------------------------------------------
(* Input universes of a scan: namespaces, workloads, policies *)

MaxWorkloads == 2
MaxPolicies == 1
MaxRules == 1
MaxPeers == 1
MaxPortConstraints == 2
MaxNamespaceInfos == 2

Namespaces == {"ns1", "ns2"}

PortHTTP == [Name |-> "http", ContainerPort |-> 80, Protocol |-> ""]
PortDNS == [Name |-> "dns", ContainerPort |-> 53, Protocol |-> "UDP"]

WebLabels == [app |-> "web"]
WebSelector == [MatchLabels |-> WebLabels, MatchExpressions |-> <<>>]
TeamSelector == [MatchLabels |-> [team |-> "x"], MatchExpressions |-> <<>>]
\* A selector that requires the label app with the empty string as its value.
EmptyValueSelector == [MatchLabels |-> [app |-> ""], MatchExpressions |-> <<>>]

Workload(ns, name, lbls, ports) ==
    [Name |-> name, Namespace |-> ns, Type |-> "Deployment", Labels |-> lbls, Ports |-> ports]

\* Workloads of two namespaces, with and without labels and ports; two of
\* them share the id ns1/a.
ScanWorkloads ==
    {Workload("ns1", "a", WebLabels, <<PortHTTP, PortDNS>>),
     Workload("ns1", "a", EmptyMap, <<PortHTTP, PortDNS>>),
     Workload("ns1", "b", WebLabels, <<>>),
     Workload("ns1", "b", EmptyMap, <<PortHTTP, PortDNS>>),
     Workload("ns2", "a", WebLabels, <<PortHTTP, PortDNS>>),
     Workload("ns2", "b", EmptyMap, <<>>)}
ScanWorkloadLists == SeqsUpTo(ScanWorkloads, MaxWorkloads)

\* Either no namespace record (a builder used without WithNamespaceLabels
\* data), or a record for each namespace.
ScanNamespaceLists ==
    {<<>>,
     <<[Name |-> "ns1", Labels |-> [team |-> "x"]], [Name |-> "ns2", Labels |-> EmptyMap]>>}

ScanPeers ==
    [PodSelector : {Nil, Some(WebSelector)},
     NamespaceSelector : {Nil}]
    \cup [PodSelector : {Nil},
          NamespaceSelector : {Some(EmptySelector), Some(TeamSelector)}]

ScanPolicyPorts ==
    {[Protocol |-> Nil, Port |-> Some([Type |-> IntstrInt, IntVal |-> 80, StrVal |-> ""])],
     [Protocol |-> Some("UDP"), Port |-> Some([Type |-> IntstrString, IntVal |-> 0, StrVal |-> "dns"])],
     [Protocol |-> Nil, Port |-> Nil]}

IngressRules ==
    [From : SeqsUpTo(ScanPeers, MaxPeers), Ports : SeqsUpTo(ScanPolicyPorts, MaxPortConstraints)]

NetworkPolicies ==
    [Name : {"np"},
     Namespace : {"ns1"},
     Spec : [PodSelector : {EmptySelector, WebSelector, EmptyValueSelector},
             Ingress : SeqsUpTo(IngressRules, MaxRules)]]

IstioSources ==
    {[Source |-> Nil],
     [Source |-> Some([Principals |-> <<>>, Namespaces |-> <<>>])],
     [Source |-> Some([Principals |-> <<"cluster.local/ns/ns2/sa/default">>, Namespaces |-> <<>>])],
     [Source |-> Some([Principals |-> <<>>, Namespaces |-> <<"ns1">>])]}

IstioOperations ==
    {[Operation |-> Some([Ports |-> <<"80">>])],
     [Operation |-> Some([Ports |-> <<"9090">>])]}

IstioRules ==
    [From : SeqsUpTo(IstioSources, MaxPeers), To : SeqsUpTo(IstioOperations, MaxPortConstraints)]

AuthorizationPolicies ==
    [Name : {"ap"},
     Namespace : {"ns1"},
     Spec : [Selector : {Nil, Some([MatchLabels |-> WebLabels]), Some([MatchLabels |-> [app |-> ""]])},
             Rules : SeqsUpTo(IstioRules, MaxRules)]]

ScanPolicies ==
    {[Name |-> np.Name, Namespace |-> np.Namespace, Type |-> PolicyTypeK8sNetworkPolicy,
      K8sNetworkPolicy |-> Some(np), IstioAuthPolicy |-> Nil] : np \in NetworkPolicies}
    \cup
    {[Name |-> ap.Name, Namespace |-> ap.Namespace, Type |-> PolicyTypeIstioAuthorizationPolicy,
      K8sNetworkPolicy |-> Nil, IstioAuthPolicy |-> Some(ap)] : ap \in AuthorizationPolicies}
ScanPolicyLists == SeqsUpTo(ScanPolicies, MaxPolicies)

WarningKinds == {WarningNoPorts, WarningNoSelector}

\* What the Go runtime may decide during one Build over the workloads ws,
\* with the documents yaml.Marshal fails on.
Envs(ws) ==
    [nsOrder : Orders(DOMAIN workloadsByNSOf(ws)), warnOrder : Orders(WarningKinds),
     marshalFails : {marshalFails}]

----------------------------------------------------------------------------
(* Idle values of the variables a specification does not use *)

SelectorIdle ==
    /\ labels = EmptyMap
    /\ selector = EmptySelector
    /\ selResult = Nil

PortIdle ==
    /\ wPort = [Name |-> "", ContainerPort |-> 80, Protocol |-> ""]
    /\ pPort = [Protocol |-> Nil, Port |-> Nil]
    /\ portResult = Nil
    /\ portPath = {}

ScanIdle ==
    /\ namespaces = <<>>
    /\ workloads = <<>>
    /\ policies = <<>>
    /\ builder = NewBuilder
    /\ graph = Nil
    /\ marshalFails = {}

PeerIdle ==
    /\ peer = [PodSelector |-> Nil, NamespaceSelector |-> Nil]
    /\ policyNamespace = ""
    /\ peerNamespaces = Nil

SourceIdle ==
    /\ ruleFrom = <<>>
    /\ foundSources = Nil

ItoaIdle ==
    /\ itoaArg = 0
    /\ itoaN = 0
    /\ itoaSigns = ""
    /\ itoaPC = "idle"
    /\ itoaResult = ""

ServeIdle ==
    /\ genPC = "exited"
    /\ calls = 0
    /\ serving = FALSE
    /\ lastErr = ""
    /\ heap = <<>>
    /\ networkGraph = 0
    /\ html = 0
    /\ currentGraph = 0
    /\ graphMutex = [writer |-> FALSE, readers |-> {}]
    /\ htmlFile = 0
    /\ handlerPC = <<>>
    /\ handlerG = <<>>

----------------------------------------------------------------------------
(* The selector matcher applied to every label set and selector *)

InitSelector ==
    /\ labels \in LabelSets
    /\ selector \in Selectors
    /\ selResult = Nil
    /\ PortIdle /\ ScanIdle /\ PeerIdle /\ SourceIdle
    /\ ServeIdle /\ ItoaIdle

CallMatchesSelector ==
    /\ selResult = Nil
    /\ selResult' = Some(matchesSelector(labels, selector))
    /\ UNCHANGED <<labels, selector, portVars, scanVars, builder, graph, peerVars, sourceVars, serveVars, itoaVars>>

NextSelector == CallMatchesSelector

SpecSelector == InitSelector /\ [][NextSelector]_vars

----------------------------------------------------------------------------
(* The port matcher applied to every workload port and constraint *)

InitPort ==
    /\ wPort \in WorkloadPorts
    /\ pPort \in PolicyPorts
    /\ portResult = Nil
    /\ portPath = {}
    /\ SelectorIdle /\ ScanIdle /\ PeerIdle /\ SourceIdle
    /\ ServeIdle /\ ItoaIdle

CallPortMatches ==
    /\ portResult = Nil
    /\ portResult' = Some(portMatches(wPort, pPort))
    /\ portPath' = portMatchesPath(wPort, pPort)
    /\ UNCHANGED <<wPort, pPort, selVars, scanVars, builder, graph, peerVars, sourceVars, serveVars, itoaVars>>

NextPort == CallPortMatches

SpecPort == InitPort /\ [][NextPort]_vars

----------------------------------------------------------------------------
(* The builder: NewBuilder, then WithNamespaceLabels and Build on a scan *)

Init ==
    /\ namespaces \in ScanNamespaceLists
    /\ workloads \in ScanWorkloadLists
    /\ policies \in ScanPolicyLists
    /\ builder = NewBuilder
    /\ graph = Nil
    /\ marshalFails = {}
    /\ SelectorIdle /\ PortIdle /\ PeerIdle /\ SourceIdle
    /\ ServeIdle /\ ItoaIdle

\* builder.WithNamespaceLabels(namespaceInfos), before the builder is used.
WithNamespaceLabels ==
    /\ IsNil(graph)
    /\ IsNil(peerNamespaces)
    /\ IsNil(foundSources)
    /\ builder' = WithNamespaceLabelsOf(builder, namespaces)
    /\ UNCHANGED <<scanVars, graph, selVars, portVars, peerVars, sourceVars, serveVars, itoaVars>>

\* graph := builder.Build(workloads, policies)
CallBuild ==
    /\ \E env \in Envs(workloads) :
          graph' = Some(Build(builder, workloads, policies, env))
    /\ UNCHANGED <<scanVars, builder, selVars, portVars, peerVars, sourceVars, serveVars, itoaVars>>

Next == WithNamespaceLabels \/ CallBuild

Spec == Init /\ [][Next]_vars

----------------------------------------------------------------------------
(* The namespace scope resolver applied to a builder, a scan and a peer *)

\* Workloads as the resolver sees them: only their namespace matters.
PeerWorkloads ==
    [Name : {"a"}, Namespace : Namespaces, Type : {"Deployment"},
     Labels : {EmptyMap}, Ports : {<<>>}]

\* Namespace records, among them records of ns3, which has no workload.
NsLabelSets == MapsOver({"team"}, {"", "x"})
NamespaceInfos == [Name : {"ns1", "ns3"}, Labels : NsLabelSets]

NsExpressions == [Key : {"team"}, Operator : Operators, Values : {<<>>, <<"x">>}]
NsSelectors ==
    [MatchLabels : NsLabelSets, MatchExpressions : SeqsUpTo(NsExpressions, MaxExprs)]
PeerPeers ==
    [PodSelector : {Nil}, NamespaceSelector : {Nil} \cup {Some(sel) : sel \in NsSelectors}]

InitPeer ==
    /\ namespaces \in SeqsUpTo(NamespaceInfos, MaxNamespaceInfos)
    /\ workloads \in SeqsUpTo(PeerWorkloads, MaxWorkloads)
    /\ policies = <<>>
    /\ builder = NewBuilder
    /\ graph = Nil
    /\ marshalFails = {}
    /\ peer \in PeerPeers
    /\ policyNamespace \in {"ns1", "ns3"}
    /\ peerNamespaces = Nil
    /\ SelectorIdle /\ PortIdle /\ SourceIdle
    /\ ServeIdle /\ ItoaIdle

\* b.getNamespacesForPeer(policyNamespace, peer, workloadsByNS), as Build
\* calls it on the workloadsByNS of the scan.
CallGetNamespacesForPeer ==
    /\ IsNil(peerNamespaces)
    /\ \E nsOrder \in Orders(DOMAIN workloadsByNSOf(workloads)) :
          peerNamespaces' =
              Some(getNamespacesForPeer(builder, policyNamespace, peer,
                                        workloadsByNSOf(workloads), nsOrder))
    /\ UNCHANGED <<scanVars, builder, graph, peer, policyNamespace, selVars, portVars, sourceVars, serveVars, itoaVars>>

NextPeer == WithNamespaceLabels \/ CallGetNamespacesForPeer

SpecPeer == InitPeer /\ [][NextPeer]_vars

----------------------------------------------------------------------------
(* The source resolver of the NetworkPolicy evaluator applied to peer lists *)

MaxSourcePeers == 2

NotTeamSelector ==
    [MatchLabels |-> EmptyMap,
     MatchExpressions |-> <<[Key |-> "team", Operator |-> OpNotIn, Values |-> <<"x">>]>>]

SourcePeers ==
    [PodSelector : {Nil, Some(WebSelector), Some(EmptySelector), Some(EmptyValueSelector)},
     NamespaceSelector : {Nil, Some(EmptySelector), Some(TeamSelector), Some(NotTeamSelector)}]

InitSources ==
    /\ namespaces \in ScanNamespaceLists
    /\ workloads \in ScanWorkloadLists
    /\ policies = <<>>
    /\ builder = NewBuilder
    /\ graph = Nil
    /\ marshalFails = {}
    /\ peer = [PodSelector |-> Nil, NamespaceSelector |-> Nil]
    /\ policyNamespace \in {"ns1", "ns3"}
    /\ peerNamespaces = Nil
    /\ ruleFrom \in SeqsUpTo(SourcePeers, MaxSourcePeers)
    /\ foundSources = Nil
    /\ SelectorIdle /\ PortIdle
    /\ ServeIdle /\ ItoaIdle

\* b.findSourceWorkloads(policyNamespace, ruleFrom, workloadsByNS), as the
\* NetworkPolicy evaluator calls it for an ingress rule.
CallFindSourceWorkloads ==
    /\ IsNil(foundSources)
    /\ \E nsOrder \in Orders(DOMAIN workloadsByNSOf(workloads)) :
          foundSources' =
              Some(findSourceWorkloads(builder, policyNamespace, ruleFrom,
                                       workloadsByNSOf(workloads), nsOrder))
    /\ UNCHANGED <<scanVars, builder, graph, peerVars, ruleFrom, selVars, portVars, serveVars, itoaVars>>

NextSources == WithNamespaceLabels \/ CallFindSourceWorkloads

SpecSources == InitSources /\ [][NextSources]_vars

----------------------------------------------------------------------------
(* The source resolver of the AuthorizationPolicy evaluator applied to from-lists *)

MaxFromEntries == 2
MaxPrincipals == 2

\* Principals with the namespace after "ns", without an "ns" segment, with
\* "ns" as the last segment, with an empty segment after "ns", and with two
\* "ns" segments.
Principals ==
    {"cluster.local/ns/ns2/sa/default", "default", "cluster.local/ns", "x/ns//ns1", "ns/ns/ns1"}

FromEntries ==
    {[Source |-> Nil]}
    \cup {[Source |-> Some(src)] :
            src \in [Principals : SeqsUpTo(Principals, MaxPrincipals),
                     Namespaces : {<<>>, <<"ns1">>}]}

InitIstioSources ==
    /\ namespaces = <<>>
    /\ workloads \in ScanWorkloadLists
    /\ policies = <<>>
    /\ builder = NewBuilder
    /\ graph = Nil
    /\ marshalFails = {}
    /\ peer = [PodSelector |-> Nil, NamespaceSelector |-> Nil]
    /\ policyNamespace = "ns1"
    /\ peerNamespaces = Nil
    /\ ruleFrom \in SeqsUpTo(FromEntries, MaxFromEntries)
    /\ foundSources = Nil
    /\ SelectorIdle /\ PortIdle
    /\ ServeIdle /\ ItoaIdle

\* b.findIstioSourceWorkloads(policyNamespace, ruleFrom, workloadsByNS), as
\* the AuthorizationPolicy evaluator calls it for a rule.
CallFindIstioSourceWorkloads ==
    /\ IsNil(foundSources)
    /\ \E nsOrder \in Orders(DOMAIN workloadsByNSOf(workloads)) :
          foundSources' =
              Some(findIstioSourceWorkloads(policyNamespace, ruleFrom,
                                            workloadsByNSOf(workloads), nsOrder))
    /\ UNCHANGED <<scanVars, builder, graph, peerVars, ruleFrom, selVars, portVars, serveVars, itoaVars>>

NextIstioSources == CallFindIstioSourceWorkloads

SpecIstioSources == InitIstioSources /\ [][NextIstioSources]_vars

----------------------------------------------------------------------------
(* Build applied to scans with several policies of several rules *)

MaxMultiPolicies == 2
MaxMultiRules == 2

\* Workloads of ns1 and ns2; two of them share the id ns1/a, as a Deployment
\* and a StatefulSet of one name do.
MultiWorkloads ==
    {Workload("ns1", "a", WebLabels, <<PortHTTP, PortDNS>>),
     Workload("ns1", "a", EmptyMap, <<PortHTTP>>),
     Workload("ns1", "b", EmptyMap, <<>>),
     Workload("ns2", "b", WebLabels, <<PortHTTP>>)}

\* Rules without peers or with a peer whose namespace selector no namespace
\* satisfies, without port constraints or with one.
MultiIngressRules ==
    [From : {<<>>, <<[PodSelector |-> Nil, NamespaceSelector |-> Some(TeamSelector)]>>},
     Ports : {<<>>,
              <<[Protocol |-> Nil,
                 Port |-> Some([Type |-> IntstrInt, IntVal |-> 80, StrVal |-> ""])]>>}]

MultiIstioRules == {[From |-> <<>>, To |-> <<>>]}

\* The policy of ns1 at position i of the policy list, named after i.
NetworkPolicyAt(i, podSelector, ingress) ==
    [Name |-> "p" \o itoa(i), Namespace |-> "ns1", Type |-> PolicyTypeK8sNetworkPolicy,
     K8sNetworkPolicy |-> Some([Name |-> "p" \o itoa(i), Namespace |-> "ns1",
                                Spec |-> [PodSelector |-> podSelector, Ingress |-> ingress]]),
     IstioAuthPolicy |-> Nil]

AuthorizationPolicyAt(i, rules) ==
    [Name |-> "p" \o itoa(i), Namespace |-> "ns1", Type |-> PolicyTypeIstioAuthorizationPolicy,
     K8sNetworkPolicy |-> Nil,
     IstioAuthPolicy |-> Some([Name |-> "p" \o itoa(i), Namespace |-> "ns1",
                               Spec |-> [Selector |-> Nil, Rules |-> rules]])]

MultiPoliciesAt(i) ==
    {NetworkPolicyAt(i, sel, ingress) :
        sel \in {EmptySelector, WebSelector},
        ingress \in SeqsUpTo(MultiIngressRules, MaxMultiRules)}
    \cup {AuthorizationPolicyAt(i, rules) : rules \in SeqsUpTo(MultiIstioRules, MaxMultiRules)}

MultiPolicyLists ==
    UNION {{pl \in [1..n -> UNION {MultiPoliciesAt(i) : i \in 1..n}] :
               \A i \in 1..n : pl[i] \in MultiPoliciesAt(i)} : n \in 0..MaxMultiPolicies}

InitMulti ==
    /\ namespaces = <<>>
    /\ workloads \in SeqsUpTo(MultiWorkloads, MaxWorkloads)
    /\ policies \in MultiPolicyLists
    /\ builder = NewBuilder
    /\ graph = Nil
    /\ marshalFails = {}
    /\ SelectorIdle /\ PortIdle /\ PeerIdle /\ SourceIdle
    /\ ServeIdle /\ ItoaIdle

NextMulti == CallBuild

SpecMulti == InitMulti /\ [][NextMulti]_vars

----------------------------------------------------------------------------
(* Build applied to scans with policies that cannot be serialized *)

\* The policies of a list of rules of at most one rule.
MarshalPoliciesAt(i) ==
    {NetworkPolicyAt(i, sel, ingress) :
        sel \in {EmptySelector, WebSelector},
        ingress \in SeqsUpTo(MultiIngressRules, 1)}
    \cup {AuthorizationPolicyAt(i, rules) : rules \in SeqsUpTo(MultiIstioRules, 1)}

MarshalPolicyLists ==
    UNION {{pl \in [1..n -> UNION {MarshalPoliciesAt(i) : i \in 1..n}] :
               \A i \in 1..n : pl[i] \in MarshalPoliciesAt(i)} : n \in 0..MaxMultiPolicies}

DocumentsOf(pols) == {policyDocument(pols[i].Type, pols[i]) : i \in 1..Len(pols)}

InitMarshal ==
    /\ namespaces = <<>>
    /\ workloads \in SeqsUpTo(MultiWorkloads, MaxWorkloads)
    /\ policies \in MarshalPolicyLists
    /\ builder = NewBuilder
    /\ graph = Nil
    /\ marshalFails \in SUBSET DocumentsOf(policies)
    /\ SelectorIdle /\ PortIdle /\ PeerIdle /\ SourceIdle
    /\ ServeIdle /\ ItoaIdle

NextMarshal == CallBuild

SpecMarshal == InitMarshal /\ [][NextMarshal]_vars

----------------------------------------------------------------------------
(* Build applied to one rule whose peers and port constraints overlap *)

MaxRuleWorkloads == 3
MaxOverlaps == 2

PortDNSTCP == [Name |-> "dns-tcp", ContainerPort |-> 53, Protocol |-> "TCP"]

\* Two workloads with the id ns1/a, a workload that declares port 53 for UDP
\* and for TCP, and a workload of another namespace.
RuleWorkloads ==
    {Workload("ns1", "a", WebLabels, <<PortHTTP>>),
     Workload("ns1", "a", EmptyMap, <<PortHTTP>>),
     Workload("ns1", "c", EmptyMap, <<PortDNS, PortDNSTCP>>),
     Workload("ns2", "b", WebLabels, <<>>)}

\* Peers that admit every workload, and every workload of the policy's
\* namespace.
OverlappingPeers ==
    {[PodSelector |-> Nil, NamespaceSelector |-> Some(EmptySelector)],
     [PodSelector |-> Some(EmptySelector), NamespaceSelector |-> Nil]}

\* Constraints that admit port 80, and every port.
OverlappingPorts ==
    {[Protocol |-> Nil, Port |-> Some([Type |-> IntstrInt, IntVal |-> 80, StrVal |-> ""])],
     [Protocol |-> Nil, Port |-> Nil]}

\* From-entries that admit the workloads of ns2, by namespace and by principal.
OverlappingSources ==
    {[Source |-> Some([Principals |-> <<>>, Namespaces |-> <<"ns2">>])],
     [Source |-> Some([Principals |-> <<"cluster.local/ns/ns2/sa/default">>, Namespaces |-> <<>>])]}

OverlappingOperations == {[Operation |-> Some([Ports |-> <<"80", "80">>])]}

OneRulePolicies ==
    {NetworkPolicyAt(1, EmptySelector, <<rule>>) :
        rule \in [From : SeqsUpTo(OverlappingPeers, MaxOverlaps),
                  Ports : SeqsUpTo(OverlappingPorts, MaxOverlaps)]}
    \cup {AuthorizationPolicyAt(1, <<rule>>) :
        rule \in [From : SeqsUpTo(OverlappingSources, MaxOverlaps),
                  To : SeqsUpTo(OverlappingOperations, MaxOverlaps)]}

InitRule ==
    /\ namespaces = <<>>
    /\ workloads \in SeqsUpTo(RuleWorkloads, MaxRuleWorkloads)
    /\ policies \in {<<policy>> : policy \in OneRulePolicies}
    /\ builder = NewBuilder
    /\ graph = Nil
    /\ marshalFails = {}
    /\ SelectorIdle /\ PortIdle /\ PeerIdle /\ SourceIdle
    /\ ServeIdle /\ ItoaIdle

NextRule == CallBuild

SpecRule == InitRule /\ [][NextRule]_vars

----------------------------------------------------------------------------
(* main.go: run, generateMap and the /warnings.csv handler *)

MaxGenerations == 3
MaxHandlers == 2

Handlers == 1..MaxHandlers

\* The namespaces of the -namespaces flag and what the cluster holds in them.
nsList == <<"ns1", "ns2">>

ClusterNamespaceInfos ==
    <<[Name |-> "ns1", Labels |-> EmptyMap], [Name |-> "ns2", Labels |-> EmptyMap]>>

ClusterWorkloads(ns) ==
    IF ns = "ns1"
    THEN <<Workload("ns1", "a", WebLabels, <<PortHTTP>>), Workload("ns1", "b", EmptyMap, <<>>)>>
    ELSE <<Workload("ns2", "a", WebLabels, <<PortHTTP>>)>>

ClusterNetworkPolicies(ns) ==
    IF ns = "ns1"
    THEN <<NetworkPolicyAt(1, WebSelector,
                           <<[From |-> <<[PodSelector |-> Some(EmptySelector),
                                          NamespaceSelector |-> Nil]>>,
                              Ports |-> <<>>]>>)>>
    ELSE <<>>

ClusterAuthorizationPolicies(ns) ==
    IF ns = "ns1"
    THEN <<AuthorizationPolicyAt(2,
               <<[From |-> <<[Source |-> Some([Principals |-> <<>>, Namespaces |-> <<"ns2">>])]>>,
                  To |-> <<>>]>>)>>
    ELSE <<>>

\* Client.GetWorkloads: failed holds the namespaces in which a listing of
\* Deployments, StatefulSets or DaemonSets returns an error.
GetWorkloads(namespaceList, failed) ==
    IF \E i \in 1..Len(namespaceList) : namespaceList[i] \in failed
    THEN [err |-> "failed to get workloads", workloads |-> <<>>]
    ELSE [err |-> "",
          workloads |-> FoldSeq(LAMBDA acc, ns : acc \o ClusterWorkloads(ns), <<>>, namespaceList)]

\* Client.GetPolicies: failedNP and failedAP hold the namespaces in which the
\* listing of NetworkPolicies, of AuthorizationPolicies, returns an error.
GetPolicies(namespaceList, failedNP, failedAP) ==
    IF \E i \in 1..Len(namespaceList) : namespaceList[i] \in failedNP
    THEN [err |-> "failed to get policies", policies |-> <<>>]
    ELSE [err |-> "",
          policies |->
              FoldSeq(LAMBDA acc, ns :
                          acc \o ClusterNetworkPolicies(ns)
                              \o (IF ns \in failedAP THEN <<>> ELSE ClusterAuthorizationPolicies(ns)),
                      <<>>, namespaceList)]

NamespaceSet == {nsList[i] : i \in 1..Len(nsList)}

\* The objects of newHeap that the pointers in roots refer to.
Referenced(newHeap, roots) == [a \in DOMAIN newHeap \cap roots |-> newHeap[a]]

HandlerPointers == {handlerG[h] : h \in DOMAIN handlerG}

outsideServe == <<selVars, portVars, peerVars, sourceVars, graph, marshalFails, itoaVars>>
handlerVars == <<handlerPC, handlerG>>

InitServe ==
    /\ genPC = "getNamespaces"
    /\ calls = 1
    /\ serving = FALSE
    /\ lastErr = ""
    /\ heap = <<>>
    /\ networkGraph = 0
    /\ html = 0
    /\ currentGraph = 0
    /\ graphMutex = [writer |-> FALSE, readers |-> {}]
    /\ htmlFile = 0
    /\ handlerPC = [h \in Handlers |-> "idle"]
    /\ handlerG = [h \in Handlers |-> 0]
    /\ SelectorIdle /\ PortIdle /\ ScanIdle /\ PeerIdle /\ SourceIdle /\ ItoaIdle

\* generateMap returns err: to run, which returns it or goes on to serve, for
\* the first call, and to the refresh loop, which prints it, for the others.
ReturnFromGenerateMap(err) ==
    /\ lastErr' = err
    /\ IF serving \/ err = ""
       THEN genPC' = "idle" /\ serving' = TRUE
       ELSE genPC' = "exited" /\ serving' = FALSE
    /\ namespaces' = <<>>
    /\ workloads' = <<>>
    /\ policies' = <<>>
    /\ builder' = NewBuilder
    /\ networkGraph' = 0
    /\ html' = 0
    /\ heap' = Referenced(heap, {currentGraph} \cup HandlerPointers)
    /\ UNCHANGED <<calls, currentGraph, graphMutex, handlerVars, outsideServe>>

\* for range ticker.C { generateMap(...) }
Tick ==
    /\ genPC = "idle"
    /\ serving
    /\ calls < MaxGenerations
    /\ genPC' = "getNamespaces"
    /\ calls' = calls + 1
    /\ UNCHANGED <<serving, lastErr, heap, networkGraph, html, currentGraph, graphMutex,
                   htmlFile, handlerVars, namespaces, workloads, policies, builder, outsideServe>>

\* namespaceInfos, err := client.GetNamespaces(nsList)
CallGetNamespaces ==
    /\ genPC = "getNamespaces"
    /\ \E fails \in BOOLEAN :
          IF fails
          THEN ReturnFromGenerateMap("failed to get namespace info") /\ UNCHANGED htmlFile
          ELSE /\ namespaces' = ClusterNamespaceInfos
               /\ genPC' = "getWorkloads"
               /\ UNCHANGED <<calls, serving, lastErr, heap, networkGraph, html, currentGraph,
                              graphMutex, htmlFile, handlerVars, workloads, policies, builder,
                              outsideServe>>

\* workloads, err := client.GetWorkloads(nsList)
CallGetWorkloads ==
    /\ genPC = "getWorkloads"
    /\ \E failed \in SUBSET NamespaceSet :
          IF GetWorkloads(nsList, failed).err # ""
          THEN ReturnFromGenerateMap(GetWorkloads(nsList, failed).err) /\ UNCHANGED htmlFile
          ELSE /\ workloads' = GetWorkloads(nsList, failed).workloads
               /\ genPC' = "getPolicies"
               /\ UNCHANGED <<calls, serving, lastErr, heap, networkGraph, html, currentGraph,
                              graphMutex, htmlFile, handlerVars, namespaces, policies, builder,
                              outsideServe>>

\* policies, err := client.GetPolicies(nsList)
CallGetPolicies ==
    /\ genPC = "getPolicies"
    /\ \E failedNP \in SUBSET NamespaceSet, failedAP \in SUBSET NamespaceSet :
          IF GetPolicies(nsList, failedNP, failedAP).err # ""
          THEN ReturnFromGenerateMap(GetPolicies(nsList, failedNP, failedAP).err)
               /\ UNCHANGED htmlFile
          ELSE /\ policies' = GetPolicies(nsList, failedNP, failedAP).policies
               /\ genPC' = "newBuilder"
               /\ UNCHANGED <<calls, serving, lastErr, heap, networkGraph, html, currentGraph,
                              graphMutex, htmlFile, handlerVars, namespaces, workloads, builder,
                              outsideServe>>

\* builder := graph.NewBuilder().WithNamespaceLabels(namespaceInfos)
MakeBuilder ==
    /\ genPC = "newBuilder"
    /\ builder' = WithNamespaceLabelsOf(NewBuilder, namespaces)
    /\ genPC' = "buildNodes"
    /\ UNCHANGED <<calls, serving, lastErr, heap, networkGraph, html, currentGraph, graphMutex,
                   htmlFile, handlerVars, namespaces, workloads, policies, outsideServe>>

\* Build returning after its node loop.
BuildNodes_Return ==
    /\ genPC = "buildNodes"
    /\ heap' = [a \in DOMAIN heap \cup {calls} |->
                   IF a = calls
                   THEN [Nodes |-> buildNodes(workloads), Edges |-> <<>>, WarningDetails |-> <<>>]
                   ELSE heap[a]]
    /\ networkGraph' = calls
    /\ genPC' = "lock"
    /\ UNCHANGED <<calls, serving, lastErr, html, currentGraph, graphMutex, htmlFile,
                   handlerVars, namespaces, workloads, policies, builder, outsideServe>>

\* builder.Build: graph := &NetworkGraph{...} and the node loop.
BuildNodes ==
    /\ genPC = "buildNodes"
    /\ heap' = [a \in DOMAIN heap \cup {calls} |->
                   IF a = calls
                   THEN [Nodes |-> buildNodes(workloads), Edges |-> <<>>, WarningDetails |-> <<>>]
                   ELSE heap[a]]
    /\ networkGraph' = calls
    /\ genPC' = "buildPolicies"
    /\ UNCHANGED <<calls, serving, lastErr, html, currentGraph, graphMutex, htmlFile,
                   handlerVars, namespaces, workloads, policies, builder, outsideServe>>

\* builder.Build: the policy loop, the warnings put on the nodes, and return.
BuildPolicies ==
    /\ genPC = "buildPolicies"
    /\ \E env \in Envs(workloads) :
          heap' = [heap EXCEPT ![networkGraph] = Build(builder, workloads, policies, env)]
    /\ genPC' = "lock"
    /\ UNCHANGED <<calls, serving, lastErr, networkGraph, html, currentGraph, graphMutex,
                   htmlFile, handlerVars, namespaces, workloads, policies, builder, outsideServe>>

\* graphMutex.Lock()
LockGraphMutex ==
    /\ genPC = "lock"
    /\ ~graphMutex.writer
    /\ graphMutex.readers = {}
    /\ graphMutex' = [graphMutex EXCEPT !.writer = TRUE]
    /\ genPC' = "store"
    /\ UNCHANGED <<calls, serving, lastErr, heap, networkGraph, html, currentGraph, htmlFile,
                   handlerVars, namespaces, workloads, policies, builder, outsideServe>>

\* currentGraph = networkGraph
StoreCurrentGraph ==
    /\ genPC = "store"
    /\ currentGraph' = networkGraph
    /\ heap' = Referenced(heap, {networkGraph} \cup HandlerPointers)
    /\ genPC' = "unlock"
    /\ UNCHANGED <<calls, serving, lastErr, networkGraph, html, graphMutex, htmlFile,
                   handlerVars, namespaces, workloads, policies, builder, outsideServe>>

\* graphMutex.Unlock()
UnlockGraphMutex ==
    /\ genPC = "unlock"
    /\ graphMutex' = [graphMutex EXCEPT !.writer = FALSE]
    /\ genPC' = "render"
    /\ UNCHANGED <<calls, serving, lastErr, heap, networkGraph, html, currentGraph, htmlFile,
                   handlerVars, namespaces, workloads, policies, builder, outsideServe>>

\* render.NewHTMLRenderer() and renderer.Render(networkGraph)
RenderGraph ==
    /\ genPC = "render"
    /\ \E fails \in BOOLEAN :
          IF fails
          THEN ReturnFromGenerateMap("failed to render graph") /\ UNCHANGED htmlFile
          ELSE /\ html' = networkGraph
               /\ genPC' = "write"
               /\ UNCHANGED <<calls, serving, lastErr, heap, networkGraph, currentGraph,
                              graphMutex, htmlFile, handlerVars, namespaces, workloads,
                              policies, builder, outsideServe>>

\* os.WriteFile(outputFile, []byte(html), 0644) and the return of generateMap
WriteOutputFile ==
    /\ genPC = "write"
    /\ \E fails \in BOOLEAN :
          IF fails
          THEN ReturnFromGenerateMap("failed to write output file") /\ UNCHANGED htmlFile
          ELSE ReturnFromGenerateMap("") /\ htmlFile' = html

\* The /warnings.csv handler: graphMutex.RLock()
HandlerRLock(h) ==
    /\ serving
    /\ handlerPC[h] = "idle"
    /\ ~graphMutex.writer
    /\ graphMutex' = [graphMutex EXCEPT !.readers = @ \cup {h}]
    /\ handlerPC' = [handlerPC EXCEPT ![h] = "read"]
    /\ UNCHANGED <<genPC, calls, serving, lastErr, heap, networkGraph, html, currentGraph,
                   htmlFile, handlerG, scanVars, builder, outsideServe>>

\* g := currentGraph
HandlerRead(h) ==
    /\ handlerPC[h] = "read"
    /\ handlerG' = [handlerG EXCEPT ![h] = currentGraph]
    /\ handlerPC' = [handlerPC EXCEPT ![h] = "runlock"]
    /\ UNCHANGED <<genPC, calls, serving, lastErr, heap, networkGraph, html, currentGraph,
                   graphMutex, htmlFile, scanVars, builder, outsideServe>>

\* graphMutex.RUnlock()
HandlerRUnlock(h) ==
    /\ handlerPC[h] = "runlock"
    /\ graphMutex' = [graphMutex EXCEPT !.readers = @ \ {h}]
    /\ handlerPC' = [handlerPC EXCEPT ![h] = "respond"]
    /\ UNCHANGED <<genPC, calls, serving, lastErr, heap, networkGraph, html, currentGraph,
                   htmlFile, handlerG, scanVars, builder, outsideServe>>

\* if g == nil { 503 } else the CSV of g.WarningDetails; the handler returns.
HandlerRespond(h) ==
    /\ handlerPC[h] = "respond"
    /\ handlerG' = [handlerG EXCEPT ![h] = 0]
    /\ handlerPC' = [handlerPC EXCEPT ![h] = "idle"]
    /\ heap' = Referenced(heap, {currentGraph, networkGraph}
                                \cup {handlerG[k] : k \in Handlers \ {h}})
    /\ UNCHANGED <<genPC, calls, serving, lastErr, networkGraph, html, currentGraph,
                   graphMutex, htmlFile, scanVars, builder, outsideServe>>

NextServe ==
    \/ Tick
    \/ CallGetNamespaces
    \/ CallGetWorkloads
    \/ CallGetPolicies
    \/ MakeBuilder
    \/ BuildNodes
    \/ BuildPolicies
    \/ LockGraphMutex
    \/ StoreCurrentGraph
    \/ UnlockGraphMutex
    \/ RenderGraph
    \/ WriteOutputFile
    \/ \E h \in Handlers :
          HandlerRLock(h) \/ HandlerRead(h) \/ HandlerRUnlock(h) \/ HandlerRespond(h)

SpecServe == InitServe /\ [][NextServe]_vars

----------------------------------------------------------------------------
(* model.go: the calls of one itoa invocation *)

MaxItoaDepth == 4
MaxSmallPort == 60

MaxInt32 == 2147483647

\* Small values of both signs, port numbers, and the ends of the int32 range.
ItoaArguments ==
    (-MaxSmallPort..MaxSmallPort)
    \cup {80, 443, 8080, 65535, -65535, MaxInt32, -MaxInt32, MinInt32 + 1, MinInt32}

InitItoa ==
    /\ itoaArg \in ItoaArguments
    /\ itoaN = itoaArg
    /\ itoaSigns = ""
    /\ itoaPC = "call"
    /\ itoaResult = ""
    /\ SelectorIdle /\ PortIdle /\ ScanIdle /\ PeerIdle /\ SourceIdle /\ ServeIdle

\* One call of itoa with room on the stack: it returns "0", or calls
\* itoa(-n), or returns the digits of n; a return passes through the waiting
\* calls, each of which puts its "-" in front.
CallItoa ==
    /\ itoaPC = "call"
    /\ Len(itoaSigns) < MaxItoaDepth
    /\ IF itoaN = 0
       THEN /\ itoaResult' = itoaSigns \o "0"
            /\ itoaPC' = "returned"
            /\ UNCHANGED <<itoaN, itoaSigns>>
       ELSE IF itoaN < 0
       THEN /\ itoaN' = Neg32(itoaN)
            /\ itoaSigns' = itoaSigns \o "-"
            /\ UNCHANGED <<itoaPC, itoaResult>>
       ELSE /\ itoaResult' = itoaSigns \o itoaDigits(itoaN, "")
            /\ itoaPC' = "returned"
            /\ UNCHANGED <<itoaN, itoaSigns>>
    /\ UNCHANGED <<itoaArg, selVars, portVars, scanVars, builder, graph, peerVars, sourceVars,
                   serveVars>>

\* A call of itoa with no room left on the stack: the runtime ends the
\* program.
StackOverflow ==
    /\ itoaPC = "call"
    /\ Len(itoaSigns) = MaxItoaDepth
    /\ itoaPC' = "stack overflow"
    /\ UNCHANGED <<itoaArg, itoaN, itoaSigns, itoaResult, selVars, portVars, scanVars, builder,
                   graph, peerVars, sourceVars, serveVars>>

NextItoa == CallItoa \/ StackOverflow

SpecItoa == InitItoa /\ [][NextItoa]_vars /\ WF_vars(NextItoa)

----------------------------------------------------------------------------
(* Properties of the selector matcher *)

\* The selector semantics of the specification: an exact-match requirement
\* holds when the key is present with the same value.
ExprContract(lbls, expr) ==
    CASE expr.Operator = OpExists -> expr.Key \in DOMAIN lbls
      [] expr.Operator = OpDoesNotExist -> expr.Key \notin DOMAIN lbls
      [] expr.Operator = OpIn ->
           expr.Key \in DOMAIN lbls
           /\ lbls[expr.Key] \in {expr.Values[i] : i \in 1..Len(expr.Values)}
      [] expr.Operator = OpNotIn ->
           expr.Key \notin DOMAIN lbls
           \/ lbls[expr.Key] \notin {expr.Values[i] : i \in 1..Len(expr.Values)}

SelectorContract(lbls, sel) ==
    /\ \A k \in DOMAIN sel.MatchLabels : k \in DOMAIN lbls /\ lbls[k] = sel.MatchLabels[k]
    /\ \A i \in 1..Len(sel.MatchExpressions) : ExprContract(lbls, sel.MatchExpressions[i])

\* C4: matchesSelector returns true exactly when every exact-match key is
\* present in labels with the same value and every expression holds; in
\* particular it returns false whenever a required exact-match key is absent,
\* whatever the required value is.
C4_MatchesExactly ==
    ~IsNil(selResult) => Deref(selResult) = SelectorContract(labels, selector)

SingleExpr(k, op, vs) ==
    [MatchLabels |-> EmptyMap,
     MatchExpressions |-> <<[Key |-> k, Operator |-> op, Values |-> vs]>>]

IsSingleExpr(sel, op) ==
    /\ sel.MatchLabels = EmptyMap
    /\ Len(sel.MatchExpressions) = 1
    /\ sel.MatchExpressions[1].Operator = op

\* C5: an empty selector matches; Exists(k) matches iff DoesNotExist(k) does
\* not; when k is present In(k,V) matches iff NotIn(k,V) does not; when k is
\* absent NotIn(k,V) matches.
C5_Complementary ==
    ~IsNil(selResult) =>
        LET e == selector.MatchExpressions[1]
        IN  /\ selector = EmptySelector => Deref(selResult)
            /\ IsSingleExpr(selector, OpExists) =>
                 Deref(selResult) = ~matchesSelector(labels, SingleExpr(e.Key, OpDoesNotExist, e.Values))
            /\ IsSingleExpr(selector, OpDoesNotExist) =>
                 Deref(selResult) = ~matchesSelector(labels, SingleExpr(e.Key, OpExists, e.Values))
            /\ IsSingleExpr(selector, OpIn) /\ e.Key \in DOMAIN labels =>
                 Deref(selResult) = ~matchesSelector(labels, SingleExpr(e.Key, OpNotIn, e.Values))
            /\ IsSingleExpr(selector, OpNotIn) /\ e.Key \in DOMAIN labels =>
                 Deref(selResult) = ~matchesSelector(labels, SingleExpr(e.Key, OpIn, e.Values))
            /\ IsSingleExpr(selector, OpNotIn) /\ e.Key \notin DOMAIN labels =>
                 Deref(selResult)

\* A NotIn selector was matched against a label set without its key, and matched.
C5_Witness ==
    /\ selResult = Some(TRUE)
    /\ IsSingleExpr(selector, OpNotIn)
    /\ selector.MatchExpressions[1].Key \notin DOMAIN labels
    /\ Len(selector.MatchExpressions[1].Values) > 0

----------------------------------------------------------------------------
(* Properties of the port matcher *)

\* The protocol a workload port counts as: TCP when it declares none.
EffectiveProtocol(wp) == IF wp.Protocol = "" THEN "TCP" ELSE wp.Protocol

\* C8: a constraint with no protocol matches a port of any protocol; a
\* constraint with a protocol matches only a port whose protocol is equal,
\* a port that declares no protocol counting as TCP (it satisfies a TCP
\* constraint and fails a UDP constraint).
C8_ProtocolDefaultsToTCP ==
    ~IsNil(portResult) =>
        /\ ~IsNil(pPort.Protocol) /\ Deref(portResult) =>
             Deref(pPort.Protocol) = EffectiveProtocol(wPort)
        /\ IsNil(pPort.Port) =>
             Deref(portResult) =
                (IsNil(pPort.Protocol) \/ Deref(pPort.Protocol) = EffectiveProtocol(wPort))

IsNumeric(pp) == ~IsNil(pp.Port) /\ Deref(pp.Port).Type = IntstrInt
IsNamed(pp) == ~IsNil(pp.Port) /\ Deref(pp.Port).Type # IntstrInt

\* The constraint names no protocol, or the protocol the workload port declares.
ProtocolCompatible(wp, pp) == IsNil(pp.Protocol) \/ Deref(pp.Protocol) = wp.Protocol

C10_NamedNeedsDeclaredName ==
    ~IsNil(portResult) /\ IsNamed(pPort) /\ Deref(portResult) =>
        /\ wPort.Name = Deref(pPort.Port).StrVal
        /\ wPort.Name # ""

----------------------------------------------------------------------------
(* Properties of the built graph *)

Nodes == Deref(graph).Nodes
Edges == Deref(graph).Edges

NodeIDs(type) == {Nodes[i].ID : i \in {j \in 1..Len(Nodes) : Nodes[j].Type = type}}

\* The workload id a port id is formed from: the text before its ":".
RECURSIVE beforeColon(_, _)
beforeColon(s, acc) ==
    IF s = "" \/ Head(s) = ":" THEN acc ELSE beforeColon(Tail(s), acc \o Head(s))

OwnerOfPort(portID) == beforeColon(portID, "")

IsK8s(policy) == policy.Type = PolicyTypeK8sNetworkPolicy
IsIstio(policy) == policy.Type = PolicyTypeIstioAuthorizationPolicy

\* C1: no edge of a built graph has a Source equal to the id of the workload
\* that owns its Target port, for NetworkPolicy and AuthorizationPolicy edges
\* alike.
C1_NoSelfEdge ==
    ~IsNil(graph) =>
        \A i \in 1..Len(Edges) :
            /\ Edges[i].Source # OwnerOfPort(Edges[i].Target)
            /\ \A j \in 1..Len(Nodes) :
                 Nodes[j].ID = Edges[i].Target => Nodes[j].Parent # Edges[i].Source

\* A rule without peers (every workload is a source, the targets included)
\* produced edges to a target that is itself among the sources.
C1_Witness ==
    /\ ~IsNil(graph)
    /\ Len(Edges) > 0
    /\ Len(policies) = 1
    /\ IsK8s(policies[1])
    /\ Len(Deref(policies[1].K8sNetworkPolicy).Spec.Ingress) = 1
    /\ Len(Deref(policies[1].K8sNetworkPolicy).Spec.Ingress[1].From) = 0
    /\ \E i \in 1..Len(workloads) :
         WorkloadID(workloads[i].Namespace, workloads[i].Name) = OwnerOfPort(Edges[1].Target)

\* C2: each edge's Source is the id of a workload node of Nodes and each
\* edge's Target is the id of a port node of Nodes, for edges of both policy
\* variants, every declared protocol and every port list of a rule.
C2_EdgesJoinNodes ==
    ~IsNil(graph) =>
        \A i \in 1..Len(Edges) :
            /\ Edges[i].Source \in NodeIDs(NodeTypeWorkload)
            /\ Edges[i].Target \in NodeIDs(NodeTypePort)

RECURSIVE SumPorts(_)
SumPorts(ws) == IF ws = <<>> THEN 0 ELSE Len(Head(ws).Ports) + SumPorts(Tail(ws))

\* C3: the number of nodes equals the number of input workloads plus the sum
\* of the lengths of their port lists; policies add or remove no node.
C3_NodeCount ==
    ~IsNil(graph) => Len(Nodes) = Len(workloads) + SumPorts(workloads)

\* Two workloads with the same id, both with ports, and a policy that made edges.
C3_Witness ==
    /\ ~IsNil(graph)
    /\ Len(workloads) = 2
    /\ WorkloadID(workloads[1].Namespace, workloads[1].Name)
         = WorkloadID(workloads[2].Namespace, workloads[2].Name)
    /\ Len(workloads[1].Ports) = 2
    /\ Len(policies) = 1
    /\ Len(Nodes) = 6

----------------------------------------------------------------------------
(* Properties of the namespace scope resolver *)

PeerScope == {Deref(peerNamespaces)[i] : i \in 1..Len(Deref(peerNamespaces))}

\* The namespaces with a record in the builder, and those with workloads.
RecordedNamespaces == DOMAIN builder.namespaceLabels
WorkloadNamespaces == {workloads[i].Namespace : i \in 1..Len(workloads)}

RecordedLabels(ns) ==
    IF ns \in RecordedNamespaces THEN builder.namespaceLabels[ns] ELSE EmptyMap

NsSelector == Deref(peer.NamespaceSelector)

HasEmptyNsSelector ==
    /\ ~IsNil(peer.NamespaceSelector)
    /\ DOMAIN NsSelector.MatchLabels = {}
    /\ Len(NsSelector.MatchExpressions) = 0

HasNsRequirements == ~IsNil(peer.NamespaceSelector) /\ ~HasEmptyNsSelector

OnlyDoesNotExist(sel) ==
    /\ DOMAIN sel.MatchLabels = {}
    /\ \A i \in 1..Len(sel.MatchExpressions) : sel.MatchExpressions[i].Operator = OpDoesNotExist

\* C7: for a namespace selector with requirements, getNamespacesForPeer
\* returns exactly the namespaces of the scan whose recorded labels (the empty
\* set when none are recorded) satisfy the selector as the selector matcher is
\* specified; a namespace with no recorded labels is in scope only when every
\* requirement is a DoesNotExist requirement; a namespace outside the scan is
\* never in scope.
C7_ScopeBySelectorContract ==
    ~IsNil(peerNamespaces) /\ HasNsRequirements =>
        /\ PeerScope = {ns \in WorkloadNamespaces : SelectorContract(RecordedLabels(ns), NsSelector)}
        /\ \A ns \in PeerScope : RecordedLabels(ns) = EmptyMap => OnlyDoesNotExist(NsSelector)
        /\ PeerScope \subseteq WorkloadNamespaces

----------------------------------------------------------------------------
(* Properties of the rule evaluators *)

WID(w) == WorkloadID(w.Namespace, w.Name)
IDsOf(ws) == {WID(ws[i]) : i \in 1..Len(ws)}

ByNS == workloadsByNSOf(workloads)

\* One order of the namespaces with workloads; the ids of a source list do
\* not depend on it.
SomeNsOrder == CHOOSE o \in Orders(DOMAIN ByNS) : TRUE

\* The number of edges from workload s to port node t.
EdgeCount(s, t) ==
    Cardinality({i \in 1..Len(Edges) : Edges[i].Source = s /\ Edges[i].Target = t})

\* The id of the node NewPortNode makes for the declared port p of workload w.
PortNodeID(w, p) == NewPortNode(WID(w), p).ID

BuiltFromOneNetworkPolicyRule ==
    /\ ~IsNil(graph)
    /\ Len(policies) = 1
    /\ IsK8s(policies[1])
    /\ Len(Deref(policies[1].K8sNetworkPolicy).Spec.Ingress) = 1

TheNetworkPolicy == Deref(policies[1].K8sNetworkPolicy)
TheIngressRule == TheNetworkPolicy.Spec.Ingress[1]

K8sTargets ==
    findMatchingWorkloads(TheNetworkPolicy.Namespace, TheNetworkPolicy.Spec.PodSelector, ByNS)
K8sSourceIDs ==
    IDsOf(findSourceWorkloads(builder, TheNetworkPolicy.Namespace, TheIngressRule.From,
                              ByNS, SomeNsOrder))

\* The positions of the declared ports of w that the rule's constraints allow.
AllowedPositions(w, rulePorts) ==
    {i \in 1..Len(w.Ports) :
        Len(rulePorts) = 0 \/ \E j \in 1..Len(rulePorts) : portMatches(w.Ports[i], rulePorts[j])}

\* C11: a rule without port constraints allows every declared port of a
\* target; otherwise a declared port is allowed iff portMatches holds for it
\* and some constraint of the list, once however many constraints match; the
\* rule's edges go from each source other than the target to exactly the
\* allowed ports of each target, one edge per source, target and allowed port.
C11_EdgesToAllowedPorts ==
    BuiltFromOneNetworkPolicyRule =>
        /\ \A k \in 1..Len(K8sTargets) :
             LET allowed == getAllowedPorts(K8sTargets[k], TheIngressRule.Ports)
                 positions == AllowedPositions(K8sTargets[k], TheIngressRule.Ports)
             IN  /\ Len(allowed) = Cardinality(positions)
                 /\ \A i \in 1..Len(K8sTargets[k].Ports) :
                      InValues(K8sTargets[k].Ports[i], allowed) <=> i \in positions
        /\ \A i \in 1..Len(Edges) : Edges[i].Source \in K8sSourceIDs
        /\ \A s \in IDsOf(workloads) :
             \A t \in NodeIDs(NodeTypePort) \cup {Edges[i].Target : i \in 1..Len(Edges)} :
                EdgeCount(s, t) =
                    IF s \in K8sSourceIDs
                    THEN Cardinality({<<k, i>> \in (1..Len(K8sTargets)) \X (1..2) :
                                         /\ WID(K8sTargets[k]) # s
                                         /\ i \in AllowedPositions(K8sTargets[k], TheIngressRule.Ports)
                                         /\ PortNodeID(K8sTargets[k], K8sTargets[k].Ports[i]) = t})
                    ELSE 0

\* A rule with two constraints that both match the http port of a target and
\* not its dns port: one edge to the http port, none to the dns port.
C11_Witness ==
    /\ BuiltFromOneNetworkPolicyRule
    /\ Len(TheIngressRule.Ports) = 2
    /\ \E k \in 1..Len(K8sTargets) :
         /\ Len(K8sTargets[k].Ports) = 2
         /\ AllowedPositions(K8sTargets[k], TheIngressRule.Ports) = {1}
         /\ \A j \in 1..2 : portMatches(K8sTargets[k].Ports[1], TheIngressRule.Ports[j])
         /\ \E s \in IDsOf(workloads) :
              /\ EdgeCount(s, PortNodeID(K8sTargets[k], K8sTargets[k].Ports[1])) = 1
              /\ EdgeCount(s, PortNodeID(K8sTargets[k], K8sTargets[k].Ports[2])) = 0

BuiltFromOneAuthorizationPolicyRule ==
    /\ ~IsNil(graph)
    /\ Len(policies) = 1
    /\ IsIstio(policies[1])
    /\ Len(Deref(policies[1].IstioAuthPolicy).Spec.Rules) = 1

TheAuthorizationPolicy == Deref(policies[1].IstioAuthPolicy)
TheAuthorizationRule == TheAuthorizationPolicy.Spec.Rules[1]

\* The workloads of the policy's namespace its selector targets.
IstioTargets ==
    LET sel == TheAuthorizationPolicy.Spec.Selector
    IN  IF ~IsNil(sel) /\ DOMAIN Deref(sel).MatchLabels # {}
        THEN findWorkloadsByLabels(TheAuthorizationPolicy.Namespace, Deref(sel).MatchLabels, ByNS)
        ELSE WorkloadsIn(ByNS, TheAuthorizationPolicy.Namespace)

\* The port numbers the to-list of the rule names.
NamedPorts == getIstioAllowedPorts(TheAuthorizationRule.To)

\* C12: every edge of an AuthorizationPolicy rule points at the node of a port
\* that a target workload declares, and when the to-list names ports, that
\* port is one of the named ones; when it names none, every declared port of
\* a target may be pointed at.
C12_IstioEdgesToDeclaredPorts ==
    BuiltFromOneAuthorizationPolicyRule =>
        \A e \in 1..Len(Edges) :
            \E k \in 1..Len(IstioTargets) :
                \E i \in 1..Len(IstioTargets[k].Ports) :
                    /\ Edges[e].Target = PortNodeID(IstioTargets[k], IstioTargets[k].Ports[i])
                    /\ Len(NamedPorts) > 0 =>
                           InValues(IstioTargets[k].Ports[i].ContainerPort, NamedPorts)

----------------------------------------------------------------------------
(* Properties of the source resolvers *)

Sources == Deref(foundSources)
SourceIDs == IDsOf(Sources)

\* The namespace scope of a peer, as the namespace scope resolver gives it.
ScopeOf(p) ==
    LET nss == getNamespacesForPeer(builder, policyNamespace, p, ByNS, SomeNsOrder)
    IN  {nss[i] : i \in 1..Len(nss)}

\* The peer p admits the workload w as a source.
PeerAdmits(p, w) ==
    /\ w.Namespace \in ScopeOf(p)
    /\ IsNil(p.NamespaceSelector) => w.Namespace = policyNamespace
    /\ IsNil(p.PodSelector) \/ SelectorContract(w.Labels, Deref(p.PodSelector))

AdmittedBySomePeer(w) == \E j \in 1..Len(ruleFrom) : PeerAdmits(ruleFrom[j], w)

\* C13: with a non-empty peer list, a workload is a source iff some peer has
\* its namespace in scope (the policy's namespace when the peer has no
\* namespace selector) and has no pod selector or one its labels match, as
\* the selector matcher is specified; with
\* an empty peer list every workload of the scan is a source; no id is
\* returned twice.
C13_SourcesByPeers ==
    ~IsNil(foundSources) =>
        /\ Len(Sources) = Cardinality(SourceIDs)
        /\ \A k \in 1..Len(Sources) : InValues(Sources[k], workloads)
        /\ Len(ruleFrom) = 0 => SourceIDs = IDsOf(workloads)
        /\ Len(ruleFrom) > 0 =>
              /\ \A i \in 1..Len(workloads) :
                    AdmittedBySomePeer(workloads[i]) => WID(workloads[i]) \in SourceIDs
              /\ \A k \in 1..Len(Sources) : AdmittedBySomePeer(Sources[k])

\* The segments of a principal between its '/' characters.
Segments(principal) == splitSlash(principal, "", <<>>)

\* The segment right after the first "ns" segment that is not the last
\* segment; "" when there is none.
NamespaceToken(principal) ==
    LET parts == Segments(principal)
        at == {i \in 1..(Len(parts) - 1) : parts[i] = "ns"}
    IN  IF at = {} THEN ""
        ELSE parts[1 + CHOOSE i \in at : \A j \in at : i <= j]

IDsInNamespace(ns) == {WID(workloads[i]) : i \in {j \in 1..Len(workloads) : workloads[j].Namespace = ns}}

\* What the principals and the namespaces of a from-entry contribute.
PrincipalContribution(src) ==
    UNION {IF NamespaceToken(src.Principals[i]) = "" THEN {}
           ELSE IDsInNamespace(NamespaceToken(src.Principals[i])) : i \in 1..Len(src.Principals)}
NamespaceContribution(src) ==
    UNION {IDsInNamespace(src.Namespaces[i]) : i \in 1..Len(src.Namespaces)}

EveryEntryHasPrincipals ==
    \A i \in 1..Len(ruleFrom) :
        ~IsNil(ruleFrom[i].Source) /\ Len(Deref(ruleFrom[i].Source).Principals) > 0

\* C14: in a from-list whose entries all carry principals, each principal
\* contributes exactly the workloads of the namespace named by the segment
\* after the "ns" segment of the principal, nothing when there is no such
\* non-empty segment; the sources are what the principals and the named
\* namespaces contribute and nothing else, so entries with only unparseable
\* principals and no namespaces yield no sources.
C14_PrincipalNamespaces ==
    ~IsNil(foundSources) /\ Len(ruleFrom) > 0 /\ EveryEntryHasPrincipals =>
        SourceIDs = UNION {PrincipalContribution(Deref(ruleFrom[i].Source))
                           \cup NamespaceContribution(Deref(ruleFrom[i].Source)) :
                           i \in 1..Len(ruleFrom)}

\* One entry with a principal of namespace ns2 and an unparseable principal,
\* no namespaces, on workloads of ns1 and ns2, and after it an entry whose
\* only principal is unparseable: the sources are the workloads of ns2.
C14_Witness ==
    /\ ~IsNil(foundSources)
    /\ Len(ruleFrom) = 2
    /\ EveryEntryHasPrincipals
    /\ Deref(ruleFrom[1].Source) =
         [Principals |-> <<"cluster.local/ns/ns2/sa/default", "x/ns//ns1">>, Namespaces |-> <<>>]
    /\ Deref(ruleFrom[2].Source) = [Principals |-> <<"default">>, Namespaces |-> <<>>]
    /\ {workloads[i].Namespace : i \in 1..Len(workloads)} = {"ns1", "ns2"}
    /\ Cardinality(SourceIDs) = 1
    /\ \A k \in 1..Len(Sources) : Sources[k].Namespace = "ns2"

\* A from-entry without principals and without namespaces, its source part
\* absent or empty.
IsUnconstrainedEntry(f) ==
    \/ IsNil(f.Source)
    \/ Len(Deref(f.Source).Principals) = 0 /\ Len(Deref(f.Source).Namespaces) = 0

\* C16: in a non-empty from-list, an entry without principals and without
\* namespaces, the entry without a source part included, makes every workload
\* of the scan a source.
C16_UnconstrainedEntryAdmitsAll ==
    ~IsNil(foundSources) /\ Len(ruleFrom) > 0 =>
        ((\E i \in 1..Len(ruleFrom) : IsUnconstrainedEntry(ruleFrom[i]))
            => SourceIDs = IDsOf(workloads))

----------------------------------------------------------------------------
(* Properties of the edges of an AuthorizationPolicy rule *)

DistinctWorkloads == Cardinality(IDsOf(workloads)) = Len(workloads)

\* The number of edges that point at a port of the workload with id wID.
EdgesToWorkload(wID) ==
    Cardinality({i \in 1..Len(Edges) : OwnerOfPort(Edges[i].Target) = wID})

\* C15: an AuthorizationPolicy rule with an empty from-list and no port in its
\* to-list yields, for each target, exactly one edge from every other
\* workload to the node of every port the target declares: (N-1)*P edges for
\* a target with P ports among N distinct workloads.
C15_EmptyFromFanOut ==
    /\ BuiltFromOneAuthorizationPolicyRule
    /\ Len(TheAuthorizationRule.From) = 0
    /\ Len(NamedPorts) = 0
    /\ DistinctWorkloads
    => \A k \in 1..Len(IstioTargets) :
          /\ EdgesToWorkload(WID(IstioTargets[k]))
               = (Len(workloads) - 1) * Len(IstioTargets[k].Ports)
          /\ \A s \in IDsOf(workloads) \ {WID(IstioTargets[k])} :
                \A i \in 1..Len(IstioTargets[k].Ports) :
                    EdgeCount(s, PortNodeID(IstioTargets[k], IstioTargets[k].Ports[i])) = 1

----------------------------------------------------------------------------
(* Properties of the targets of a policy *)

PolicyFullName(policy) == policy.Namespace \o "/" \o policy.Name

\* The label set lbls satisfies the target selector of the policy, as the
\* selector matcher is specified; an absent or empty selector is satisfied.
SatisfiesTargetSelector(policy, lbls) ==
    IF IsK8s(policy)
    THEN SelectorContract(lbls, Deref(policy.K8sNetworkPolicy).Spec.PodSelector)
    ELSE LET sel == Deref(policy.IstioAuthPolicy).Spec.Selector
         IN  IsNil(sel)
             \/ \A key \in DOMAIN Deref(sel).MatchLabels :
                    key \in DOMAIN lbls /\ lbls[key] = Deref(sel).MatchLabels[key]

HasNoTargetRequirement(policy) ==
    IF IsK8s(policy)
    THEN Deref(policy.K8sNetworkPolicy).Spec.PodSelector = EmptySelector
    ELSE LET sel == Deref(policy.IstioAuthPolicy).Spec.Selector
         IN  IsNil(sel) \/ DOMAIN Deref(sel).MatchLabels = {}

\* The workloads the evaluator of the policy takes as its targets.
TargetsOf(policy) ==
    IF IsK8s(policy)
    THEN findMatchingWorkloads(policy.Namespace,
                               Deref(policy.K8sNetworkPolicy).Spec.PodSelector, ByNS)
    ELSE LET sel == Deref(policy.IstioAuthPolicy).Spec.Selector
         IN  IF ~IsNil(sel) /\ DOMAIN Deref(sel).MatchLabels # {}
             THEN findWorkloadsByLabels(policy.Namespace, Deref(sel).MatchLabels, ByNS)
             ELSE WorkloadsIn(ByNS, policy.Namespace)

\* C17: the workload that owns the target port of an edge is in the namespace
\* of the policy the edge names and its labels satisfy the target selector of
\* that policy; a policy with an empty or absent target selector targets
\* every workload of its namespace and none of another namespace.
C17_TargetsInPolicyScope ==
    ~IsNil(graph) =>
        \A p \in 1..Len(policies) :
            /\ \A e \in 1..Len(Edges) :
                  Edges[e].Policy = PolicyFullName(policies[p]) =>
                      \E i \in 1..Len(workloads) :
                          /\ WID(workloads[i]) = OwnerOfPort(Edges[e].Target)
                          /\ workloads[i].Namespace = policies[p].Namespace
                          /\ SatisfiesTargetSelector(policies[p], workloads[i].Labels)
            /\ HasNoTargetRequirement(policies[p]) =>
                  TargetsOf(policies[p]) = WorkloadsIn(ByNS, policies[p].Namespace)

----------------------------------------------------------------------------
(* Properties of the warnings *)

\* The positions of the workload nodes in Nodes; the i-th of them is the node
\* of workloads[i].
WorkloadNodePositions ==
    SelectSeq([j \in 1..Len(Nodes) |-> j], LAMBDA j : Nodes[j].Type = NodeTypeWorkload)

NodeOfWorkload(i) == Nodes[WorkloadNodePositions[i]]

KindsIn(warnings) == {warnings[k] : k \in 1..Len(warnings)}

\* The ingress rule triggers the warning kind.
Triggers(ingressRule, kind) ==
    \/ kind = WarningNoPorts /\ Len(ingressRule.Ports) = 0
    \/ kind = WarningNoSelector /\ Len(ingressRule.From) = 0

IngressOf(policy) == Deref(policy.K8sNetworkPolicy).Spec.Ingress

\* The workload w is a target of the NetworkPolicy at position p.
IsTargetOf(w, p) ==
    /\ IsK8s(policies[p])
    /\ \E t \in 1..Len(TargetsOf(policies[p])) : TargetsOf(policies[p])[t] = w

\* Some rule of the NetworkPolicy at position p triggers the kind.
PolicyTriggers(p, kind) ==
    /\ IsK8s(policies[p])
    /\ \E r \in 1..Len(IngressOf(policies[p])) : Triggers(IngressOf(policies[p])[r], kind)

\* The warning kinds some rule of some NetworkPolicy targeting w triggers.
ExpectedKinds(w) ==
    {kind \in {WarningNoPorts, WarningNoSelector} :
        \E p \in 1..Len(policies) : IsTargetOf(w, p) /\ PolicyTriggers(p, kind)}

\* C18: after Build the node of a workload carries the warning kind
\* unrestricted-ports iff some ingress rule of some NetworkPolicy targeting
\* the workload has no port constraints, and unrestricted-source iff some such
\* rule has no peers, whether or not the rule produced an edge; no kind
\* appears twice on a node.
C18_NodeWarnings ==
    ~IsNil(graph) =>
        \A i \in 1..Len(workloads) :
            /\ KindsIn(NodeOfWorkload(i).Warnings) = ExpectedKinds(workloads[i])
            /\ Len(NodeOfWorkload(i).Warnings) = Cardinality(KindsIn(NodeOfWorkload(i).Warnings))

\* The same for scans in which no two workloads share an id.
C18_NodeWarningsDistinctIDs == DistinctWorkloads => C18_NodeWarnings

----------------------------------------------------------------------------
(* Properties of the warning details *)

WarningDetails == Deref(graph).WarningDetails

\* The first rule of the NetworkPolicy at position p that triggers the kind.
FirstTriggeringRule(p, kind) ==
    CHOOSE r \in 1..Len(IngressOf(policies[p])) :
        /\ Triggers(IngressOf(policies[p])[r], kind)
        /\ \A q \in 1..(r - 1) : ~Triggers(IngressOf(policies[p])[q], kind)

\* The first position in the target list of the policy at position p of a
\* workload with the id wID.
FirstTargetPosition(p, wID) ==
    CHOOSE t \in 1..Len(TargetsOf(policies[p])) :
        /\ WID(TargetsOf(policies[p])[t]) = wID
        /\ \A q \in 1..(t - 1) : WID(TargetsOf(policies[p])[q]) # wID

\* The (target id, policy position, kind) for which a record is due.
DueRecords ==
    {<<wID, p, kind>> \in IDsOf(workloads) \X (1..Len(policies)) \X {WarningNoPorts, WarningNoSelector} :
        /\ PolicyTriggers(p, kind)
        /\ wID \in IDsOf(TargetsOf(policies[p]))}

\* The records of WarningDetails for the target id, the policy at position p
\* and the kind.
RecordsFor(wID, p, kind) ==
    {i \in 1..Len(WarningDetails) :
        /\ WarningDetails[i].WorkloadID = wID
        /\ WarningDetails[i].PolicyName = PolicyFullName(policies[p])
        /\ WarningDetails[i].WarningType = kind}

\* The position of the policy a record names; the policies of a list have
\* different names.
PolicyPositionOf(record) ==
    CHOOSE p \in 1..Len(policies) : PolicyFullName(policies[p]) = record.PolicyName

\* Record i was first seen no later than record j: at an earlier policy, or
\* at an earlier rule of one policy, or at no later a target of one rule.
SeenNoLater(i, j) ==
    LET pi == PolicyPositionOf(WarningDetails[i])
        pj == PolicyPositionOf(WarningDetails[j])
        ri == FirstTriggeringRule(pi, WarningDetails[i].WarningType)
        rj == FirstTriggeringRule(pj, WarningDetails[j].WarningType)
        ti == FirstTargetPosition(pi, WarningDetails[i].WorkloadID)
        tj == FirstTargetPosition(pj, WarningDetails[j].WorkloadID)
    IN  \/ pi < pj
        \/ pi = pj /\ ri < rj
        \/ pi = pj /\ ri = rj /\ ti <= tj

\* C19: WarningDetails holds exactly one record for each target workload,
\* NetworkPolicy and warning kind such that a rule of the policy triggers the
\* kind on the workload, however many rules of the policy trigger it, one for
\* each such policy, and no other record; the records are in the order in
\* which they were first seen: by policy, then rule, then target.
C19_WarningDetails ==
    ~IsNil(graph) =>
        /\ \A d \in DueRecords : Cardinality(RecordsFor(d[1], d[2], d[3])) = 1
        /\ Len(WarningDetails) = Cardinality(DueRecords)
        /\ \A i, j \in 1..Len(WarningDetails) : i < j => SeenNoLater(i, j)

\* Two policies of two rules each, every rule without port constraints, with
\* a common target: one record for each policy.
C19_Witness ==
    /\ ~IsNil(graph)
    /\ Len(policies) = 2
    /\ \A p \in 1..2 :
          /\ IsK8s(policies[p])
          /\ Len(IngressOf(policies[p])) = 2
          /\ \A r \in 1..2 : Triggers(IngressOf(policies[p])[r], WarningNoPorts)
    /\ Len(TargetsOf(policies[1])) = 2
    /\ \E wID \in IDsOf(workloads) :
          /\ Cardinality(RecordsFor(wID, 1, WarningNoPorts)) = 1
          /\ Cardinality(RecordsFor(wID, 2, WarningNoPorts)) = 1

----------------------------------------------------------------------------
(* Properties of the edge ids and the edge order *)

\* The position of the policy an edge names; the policies of a list have
\* different names.
PolicyPositionOfEdge(edge) ==
    CHOOSE p \in 1..Len(policies) : PolicyFullName(policies[p]) = edge.Policy

\* The number of the rule an edge names, counted from 1.
RuleNumberOfEdge(edge) ==
    CHOOSE r \in 1..MaxMultiRules :
        edge.Rule \in {"NetworkPolicy Rule " \o Sprintd(r), "AuthzPolicy Rule " \o Sprintd(r)}

\* C20: the k-th edge of Edges, counted from 0, has the id edge-k, for the
\* edges of both policy kinds; the edges of an earlier policy precede those
\* of a later policy, and within one policy the edges of an earlier rule
\* precede those of a later rule.
C20_EdgeIDsAndOrder ==
    ~IsNil(graph) =>
        /\ \A k \in 1..Len(Edges) : Edges[k].ID = "edge-" \o itoa(k - 1)
        /\ \A i, j \in 1..Len(Edges) :
              i < j =>
                  \/ PolicyPositionOfEdge(Edges[i]) < PolicyPositionOfEdge(Edges[j])
                  \/ /\ PolicyPositionOfEdge(Edges[i]) = PolicyPositionOfEdge(Edges[j])
                     /\ RuleNumberOfEdge(Edges[i]) <= RuleNumberOfEdge(Edges[j])

\* A NetworkPolicy and an AuthorizationPolicy of two rules each, every rule
\* of which produced an edge.
C20_Witness ==
    /\ ~IsNil(graph)
    /\ Len(policies) = 2
    /\ IsK8s(policies[1]) # IsK8s(policies[2])
    /\ \A p \in 1..2 : \A r \in 1..2 :
          \E k \in 1..Len(Edges) :
              PolicyPositionOfEdge(Edges[k]) = p /\ RuleNumberOfEdge(Edges[k]) = r

----------------------------------------------------------------------------
(* Properties of repeated builds *)

\* A node with its warnings taken as a set.
NodeContent(n) == [n EXCEPT !.Warnings = KindsIn(n.Warnings)]

NodeSetOf(g) == {NodeContent(g.Nodes[i]) : i \in 1..Len(g.Nodes)}

\* An edge without its id.
EdgeContent(e) == [e EXCEPT !.ID = ""]

EdgeContentsOf(g) == {EdgeContent(g.Edges[i]) : i \in 1..Len(g.Edges)}

\* The number of edges of g with the content c.
EdgeMultiplicity(g, c) == Cardinality({i \in 1..Len(g.Edges) : EdgeContent(g.Edges[i]) = c})

DetailSetOf(g) == {g.WarningDetails[i] : i \in 1..Len(g.WarningDetails)}

\* g1 and g2 have the same nodes, the same edges up to their ids, each as
\* often, and the same warning details.
SameContent(g1, g2) ==
    /\ NodeSetOf(g1) = NodeSetOf(g2)
    /\ EdgeContentsOf(g1) = EdgeContentsOf(g2)
    /\ \A c \in EdgeContentsOf(g1) : EdgeMultiplicity(g1, c) = EdgeMultiplicity(g2, c)
    /\ DetailSetOf(g1) = DetailSetOf(g2)

\* C21: a Build on the workloads, namespace labels and policies of an earlier
\* Build returns the same set of nodes, the same edges compared on every
\* field but the id, and the same set of warning details; a Build leaves the
\* namespace labels of the builder as they were.
C21_RebuildSameContent ==
    [][~IsNil(graph') =>
          /\ builder' = builder
          /\ ~IsNil(graph) => SameContent(Deref(graph), Deref(graph'))]_vars

\* A graph with edges and warnings, built by a builder with namespace labels
\* from inputs for which the runtime's choices give graphs that differ.
C21_Witness ==
    /\ ~IsNil(graph)
    /\ DOMAIN builder.namespaceLabels # {}
    /\ Len(Edges) > 0
    /\ Len(Deref(graph).WarningDetails) > 0
    /\ \E env \in Envs(workloads) : Build(builder, workloads, policies, env) # Deref(graph)

\* C22: for fixed inputs in a fixed order a Build returns the ordered output
\* of the Build before it: the same sequence of edges, ids included, and the
\* same warning list on every node.
C22_RebuildSameOutput ==
    [][~IsNil(graph) /\ ~IsNil(graph') => graph' = graph]_vars

\* The same for inputs whose workloads are all in one namespace and whose
\* policies trigger at most one warning kind.
C22_RebuildSameOutputOneOrder ==
    [][/\ ~IsNil(graph) /\ ~IsNil(graph')
       /\ Cardinality(DOMAIN ByNS) <= 1
       /\ \A i \in 1..Len(Nodes) : Len(Nodes[i].Warnings) <= 1
       => graph' = graph]_vars

----------------------------------------------------------------------------
(* Properties of a Build with policies that cannot be serialized *)

\* The document of the policy an edge names cannot be serialized.
MarshalFailsFor(edge) == (edge.Metadata.policyType \o " " \o edge.Policy) \in marshalFails

\* The graph of the same Build had every document been serialized.
BuildAllSerialized(env) ==
    Build(builder, workloads, policies, [env EXCEPT !.marshalFails = {}])

\* g is the graph g0 but for the raw policy document of the edges of the
\* policies that cannot be serialized, which is empty.
DegradedOnlyInDocuments(g, g0) ==
    /\ g.Nodes = g0.Nodes
    /\ g.WarningDetails = g0.WarningDetails
    /\ Len(g.Edges) = Len(g0.Edges)
    /\ \A k \in 1..Len(g.Edges) :
          /\ g.Edges[k] = [g0.Edges[k] EXCEPT !.PolicyYAML = g.Edges[k].PolicyYAML]
          /\ g0.Edges[k].PolicyYAML # ""
          /\ g.Edges[k].PolicyYAML =
                IF MarshalFailsFor(g.Edges[k]) THEN "" ELSE g0.Edges[k].PolicyYAML

\* C23: when the serialization of a policy fails, Build returns every node,
\* edge and warning it returns when none fails; the edges of that policy
\* carry an empty raw policy document and the edges of the other policies
\* are as they are without the failure.
C23_MarshalFailureDegrades ==
    ~IsNil(graph) =>
        \E env \in Envs(workloads) : DegradedOnlyInDocuments(Deref(graph), BuildAllSerialized(env))

\* A graph with warnings and with edges of a policy that cannot be
\* serialized and of one that can.
C23_Witness ==
    /\ ~IsNil(graph)
    /\ Len(Deref(graph).WarningDetails) > 0
    /\ \E k \in 1..Len(Edges) : MarshalFailsFor(Edges[k]) /\ Edges[k].PolicyYAML = ""
    /\ \E k \in 1..Len(Edges) : ~MarshalFailsFor(Edges[k]) /\ Edges[k].PolicyYAML # ""

----------------------------------------------------------------------------
(* Properties of the published graph *)

\* The policy lists GetPolicies can return without an error.
FetchablePolicyLists ==
    {GetPolicies(nsList, {}, failedAP).policies : failedAP \in SUBSET NamespaceSet}

AllClusterWorkloads == GetWorkloads(nsList, {}).workloads

\* The graphs a completed Build returns for what generateMap can fetch.
CompletedGraphs ==
    {Build(WithNamespaceLabelsOf(NewBuilder, ClusterNamespaceInfos), AllClusterWorkloads, pols, env) :
        pols \in FetchablePolicyLists, env \in Envs(AllClusterWorkloads)}

\* The pointers a reader of currentGraph has or can get.
PublishedPointers == ({currentGraph} \cup HandlerPointers) \ {0}

\* C24: while the refresh goroutine regenerates the map and handlers read it,
\* the graph a reader of currentGraph obtains is one whose Build has
\* completed; currentGraph changes only by the assignment made while the
\* goroutine holds graphMutex for writing, and a published graph is not
\* changed afterwards.
C24_ReadersSeeCompletedGraphs ==
    [][/\ \A a \in PublishedPointers : a \in DOMAIN heap /\ heap[a] \in CompletedGraphs
       /\ currentGraph' # currentGraph =>
             /\ genPC = "store"
             /\ graphMutex.writer /\ graphMutex.readers = {}
             /\ graphMutex'.writer
             /\ heap'[currentGraph'] \in CompletedGraphs
       /\ \A a \in PublishedPointers : a \in DOMAIN heap' => heap'[a] = heap[a]]_vars

\* A handler holds the graph of the first generateMap call while the refresh
\* goroutine, which has published the graph of its second call, is building
\* that of its third.
C24_Witness ==
    /\ genPC = "buildPolicies"
    /\ networkGraph = 3
    /\ currentGraph = 2
    /\ \E h \in Handlers : handlerPC[h] = "respond" /\ handlerG[h] = 1
    /\ heap[networkGraph] \notin CompletedGraphs

----------------------------------------------------------------------------
(* Properties of the fetches of generateMap *)

\* generateMap is in the Build call or past it.
PastFetches ==
    genPC \in {"newBuilder", "buildNodes", "buildPolicies", "lock", "store", "unlock",
               "render", "write"}

\* Everything the cluster holds in the scanned namespaces.
AllClusterPolicies ==
    FoldSeq(LAMBDA acc, ns : acc \o ClusterNetworkPolicies(ns) \o ClusterAuthorizationPolicies(ns),
            <<>>, nsList)

\* C25: when a listing of namespaces, workloads, NetworkPolicies or
\* AuthorizationPolicies fails for a scanned namespace, generateMap returns
\* the error and does not call Build; Build is called only with all
\* namespaces, workloads and policies of the scanned namespaces.
C25_BuildOnlyOnCompleteFetch ==
    PastFetches =>
        /\ namespaces = ClusterNamespaceInfos
        /\ workloads = AllClusterWorkloads
        /\ policies = AllClusterPolicies

\* The same for the namespaces, the workloads and the NetworkPolicies.
C25_BuildOnlyOnCompleteFetchButIstio ==
    PastFetches =>
        /\ namespaces = ClusterNamespaceInfos
        /\ workloads = AllClusterWorkloads
        /\ SelectSeq(policies, IsK8s) = SelectSeq(AllClusterPolicies, IsK8s)

----------------------------------------------------------------------------
(* Properties of a generateMap call that returns an error *)

\* C30: after a generateMap call that returned an error, currentGraph is the
\* graph published before the call, so that between calls the graph the
\* handlers serve is the one whose rendering is in the output file; the
\* refresh loop goes on to the next tick.
C30_FailedCallKeepsPublishedGraph ==
    /\ genPC = "idle" => currentGraph = htmlFile
    /\ serving => genPC # "exited"

----------------------------------------------------------------------------
(* Properties of the node ids *)

\* C26: no two nodes of a built graph have the same id, also when a
\* namespace/name occurs for two workload kinds or a workload declares a
\* port number and protocol twice.
C26_NodeIDsUnique ==
    ~IsNil(graph) =>
        \A i, j \in 1..Len(Nodes) : Nodes[i].ID = Nodes[j].ID => i = j

\* The same for scans in which no two workloads share an id; no workload of
\* the scans declares a port twice.
C26_NodeIDsUniqueDistinctIDs == DistinctWorkloads => C26_NodeIDsUnique

----------------------------------------------------------------------------
(* Properties of itoa *)

\* C27: itoa returns, and what it returns is the decimal representation of
\* its argument, for every int32 argument, the negative ones included.
C27_ItoaReturnsDecimal ==
    <>(itoaPC = "returned" /\ itoaResult = Sprintd(itoaArg))

\* The same for every argument but the least int32.
C27_ItoaReturnsDecimalButMinInt32 ==
    itoaArg # MinInt32 => <>(itoaPC = "returned" /\ itoaResult = Sprintd(itoaArg))

----------------------------------------------------------------------------
(* Properties of the edges of one rule *)

\* The edges of Edges with the source, the target, the policy and the rule
\* of the edge e.
EdgesLike(e) ==
    {k \in 1..Len(Edges) :
        /\ Edges[k].Source = e.Source
        /\ Edges[k].Target = e.Target
        /\ Edges[k].Policy = e.Policy
        /\ Edges[k].Rule = e.Rule}

\* C28: within one rule of one policy a built graph has at most one edge for
\* a source workload and a target port node, however many peers or
\* from-entries match the source and however many port constraints match the
\* port.
C28_OneEdgePerSourceAndPort ==
    ~IsNil(graph) =>
        \A k \in 1..Len(Edges) : Cardinality(EdgesLike(Edges[k])) = 1

\* No workload of the scan declares one port number for two protocols.
OnePortPerNumber ==
    \A i \in 1..Len(workloads) : \A p, q \in 1..Len(workloads[i].Ports) :
        workloads[i].Ports[p].ContainerPort = workloads[i].Ports[q].ContainerPort => p = q

\* The same for scans in which no two workloads share an id and, for an
\* AuthorizationPolicy, no workload declares a port number twice.
C28_OneEdgePerSourceAndPortDistinctIDs ==
    DistinctWorkloads /\ (IsK8s(policies[1]) \/ OnePortPerNumber) => C28_OneEdgePerSourceAndPort

----------------------------------------------------------------------------
(* Properties of a peer without selectors *)

\* A peer with neither a pod selector nor a namespace selector, as one that
\* carries only an IP block.
BarePeer == [PodSelector |-> Nil, NamespaceSelector |-> Nil]

\* C29: a peer with neither a pod selector nor a namespace selector
\* contributes every workload of the policy's namespace as a source and no
\* workload of another namespace.
C29_BarePeerAdmitsOwnNamespace ==
    ~IsNil(foundSources) =>
        /\ (\E j \in 1..Len(ruleFrom) : ruleFrom[j] = BarePeer) =>
              IDsInNamespace(policyNamespace) \subseteq SourceIDs
        /\ (Len(ruleFrom) > 0 /\ \A j \in 1..Len(ruleFrom) : ruleFrom[j] = BarePeer) =>
              SourceIDs = IDsInNamespace(policyNamespace)

\* The sources of the single peer without selectors on workloads of ns1 and
\* ns2, for a policy of ns1.
C29_Witness ==
    /\ ~IsNil(foundSources)
    /\ ruleFrom = <<BarePeer>>
    /\ policyNamespace = "ns1"
    /\ {workloads[i].Namespace : i \in 1..Len(workloads)} = {"ns1", "ns2"}
    /\ SourceIDs # {}
    /\ SourceIDs # IDsOf(workloads)

====
